---- MODULE Spec2Model ----
(***************************************************************************)
(* Verification model of the VES log collection agent.                     *)
(*                                                                         *)
(*  - services/log-collector: InMemoryBuffer (buffer_batcher), the         *)
(*    process_log_line pipeline step, the per-file Tailer and the Shipper  *)
(*    worker with its bounded handoff channel.                             *)
(*  - components/core-agent: the Watcher (discovery, event translation,    *)
(*    checkpoint), the TailerManager and its per-inode Tailer tasks.       *)
(*                                                                         *)
(* Each subsystem has its own specification (SpecBuffer, SpecCollector,    *)
(* SpecAgent); the variables of the other subsystems keep their initial    *)
(* value under it.                                                         *)
(***************************************************************************)
EXTENDS Integers, Sequences, FiniteSets, TLC

(***************************************************************************)
(* Bounds of the model.                                                    *)
(***************************************************************************)
MaxPush == 3        \* records pushed through the InMemoryBuffer API
MaxCapacity == 2    \* largest configured buffer_capacity
MaxBatchSize == 2   \* largest configured batch_size
MaxTimeout == 1     \* largest configured batch_timeout_ms (in clock ticks)
MaxTime == 2        \* clock ticks
LinesPerFile == 2   \* complete lines in each tailed file
MaxConn == 2        \* streams the Shipper worker opens
MaxInodes == 2      \* inode numbers the filesystem hands out
MaxSize == 2        \* bytes a file grows to
MaxFsOps == 4       \* filesystem operations while the Watcher runs
MaxPayloads == 3    \* WatcherPayloads delivered to the TailerManager
MaxAttempts == 5    \* connection attempts of one connect_with_retry call
MaxLimit == 3       \* largest max_reconnect_attempts
MaxFileBytes == 3   \* largest length of a log file of the collector, in bytes
MaxRuns == 2        \* runs of the log collector over the same log_dir
MaxReceivers == 4   \* receivers taken from one Shutdown

VARIABLES
    \* ---- InMemoryBuffer (log_buffer_batcher.rs:20-31) ----
    cfg,            \* BufferConfig the buffer was built from
    queue,          \* InMemoryBuffer.queue, front first
    last_flush_at,  \* InMemoryBuffer.last_flush_at
    db,             \* rows of the normalized_logs table, in insertion order
    now,            \* the clock read by Instant::now()
    closed,         \* shutdown() has run
    \* ---- observation of the buffer's history ----
    calls,          \* number of push calls so far
    pushed,         \* records for which push returned Ok, in push order
    dropped,        \* records removed or rejected by the overflow policy
    returned,       \* records that appeared in a batch returned by flush
    quiet,          \* TRUE while no operation other than push has run and no flush fired
    last,           \* the last operation and its result: [op, res]
    \* ---- log-collector pipeline: Tailers, Shipper, runtime ----
    tpos,           \* per file: lines its Tailer has read
    tstate,         \* per file: "running", "sending" (inside Shipper.send), "done"
    sendbuf,        \* the batch a Tailer suspended in Shipper.send is handing over
    chan,           \* Shipper's handoff channel: batches, oldest first
    wstate,         \* Shipper worker: "connecting", "streaming", "broken", "exited"
    wsignal,        \* worker's oneshot shutdown_rx: "idle", "sent", "taken"
    conn,           \* streams opened so far
    wire,           \* records written to the request stream: [conn, log]
    handed,         \* records of the batches Shipper.send accepted
    enqueued,       \* the same records in the order they entered the channel
    phase,          \* run_log_collector: "running", "stopping", "detached", "buffer_down",
                    \* "shipper_down", "done"
    \* ---- core-agent: filesystem, Watcher, TailerManager, Tailers ----
    fs,             \* the watched directory: path -> inode, 0 when the path is absent
    size,           \* inode -> length of the file in bytes
    fsq,            \* notify events waiting in fs_rx, oldest first
    nops,           \* steps the environment has taken
    wphase,         \* Watcher::run: "idle", "boot", "running", "stopped"
    ckpt,           \* Checkpoint.files: inode -> [path, offset]
    wq,             \* WatcherPayloads in the channel to the TailerManager
    mrun,           \* TailerManager::run is in its loop
    mcur,           \* the WatcherPayload the manager is handling, or NoPayload
    pending,        \* TailerEvents of mcur still to handle
    mbase,          \* tailers and the number of tasks when mcur was received
    tailers,        \* TailerManager.tailers: inode -> Tailer task
    tasks,          \* the spawned Tailer tasks, in spawn order
    emitted,        \* TailerPayloads received downstream: [task, upto]
    outputOpen,     \* the receiving half of the Tailers' output channel is alive
    ignored,        \* identities whose Start found an entry in tailers
    \* ---- log-collector Shipper: connect_with_retry ----
    rcfg,           \* the ShipperConfig fields connect_with_retry reads
    attempts,       \* connect_with_retry: attempts
    delay,          \* connect_with_retry: delay, in ms
    sleeps,         \* the durations it has slept, in ms, in order
    rstate,         \* "idle", "trying", "connected", "error", "panicked"
    \* ---- log-collector LogWatcher, Checkpoint and Tailer offsets ----
    lfile,          \* log_dir: path -> the file's lines, [bytes, nl]; nl is FALSE
                    \* while the last line has no newline yet
    ckfile,         \* the checkpoint file on disk: path -> [inode, offset]
    checkpoint,     \* LogWatcher.checkpoint.files
    ltail,          \* path -> [state, file_offset, pos, read, fragments] of its Tailer
    lphase,         \* "off", "down", "new" (new_watcher done), "up", "failed"
                    \* (run_watcher returned an error)
    lrun,           \* number of the current run
    before,         \* path -> start offsets of the lines earlier runs consumed
    persisted,      \* the checkpoint file as the last shutdown left it
    \* ---- helpers::shutdown::Shutdown (a broadcast channel) ----
    bsent,          \* messages the broadcast channel has stored so far
    triggered,      \* trigger() has been called
    rxs,            \* receiver -> [state, next, seen, early]
    \* ---- log-collector LogWatcher::run_watcher and its log_dir ----
    ldir,           \* log_dir: path -> inode, 0 when the path is absent
    levents,        \* notify events waiting in event_rx, oldest first
    active_files,   \* LogWatcher.active_files: inode -> path
    lops            \* steps the environment of the LogWatcher has taken

bufVars == <<cfg, queue, last_flush_at, db, now, closed>>
obsVars == <<calls, pushed, dropped, returned, quiet, last>>
colVars == <<tpos, tstate, sendbuf, chan, wstate, wsignal, conn, wire, handed, enqueued, phase>>
watVars == <<fs, size, fsq, nops, wphase, ckpt, wq>>
mgrVars == <<mrun, mcur, pending, mbase, tailers, tasks, emitted, outputOpen, ignored>>
agtVars == <<watVars, mgrVars>>
retVars == <<rcfg, attempts, delay, sleeps, rstate>>
ckVars == <<lfile, ckfile, checkpoint, ltail, lphase, lrun, before, persisted>>
shVars == <<bsent, triggered, rxs>>
lwVars == <<ldir, levents, active_files, lops>>
extVars == <<retVars, ckVars, shVars, lwVars>>
vars == <<bufVars, obsVars, colVars, agtVars, extVars>>

(***************************************************************************)
(* Helpers.                                                                *)
(***************************************************************************)
Min(a, b) == IF a <= b THEN a ELSE b

Range(s) == {s[i] : i \in 1..Len(s)}

\* VecDeque::drain(..n): the n front elements, and what stays behind.
Front_lifo(q, n) == [i \in 1..n |-> q[n + 1 - i]]

Front(q, n) == SubSeq(q, 1, n)

Rest(q, n) == SubSeq(q, n + 1, Len(q))

(***************************************************************************)
(* Configuration (helpers/load_config.rs BufferConfig).                    *)
(***************************************************************************)
OverflowPolicies == {"drop_newest", "drop_oldest", "block_with_backpressure", "grow_capacity"}

FlushPolicies == {"batch_size", "batch_timeout", "hybrid_size_timeout"}

DrainPolicies == {"drain_all", "drain_batch_size", "drain_batch_timeout"}

Durabilities == {"InMemory", "SQLite"}

\* The drain policy is configured to match the flush policy
\* (log_buffer_batcher.rs:478-481).
DrainPolicyFor(fp) ==
    CASE fp = "batch_size" -> "drain_batch_size"
      [] fp = "batch_timeout" -> "drain_batch_timeout"
      [] OTHER -> "drain_all"

BufferConfigs ==
    {c \in [buffer_capacity : {0, MaxCapacity},
            batch_size : 0..MaxBatchSize,
            batch_timeout_ms : {0, MaxTimeout},
            durability : Durabilities,
            overflow_policy : OverflowPolicies,
            flush_policy : FlushPolicies,
            drain_policy : DrainPolicies] :
        c.drain_policy = DrainPolicyFor(c.flush_policy)}

\* The mutable part of an InMemoryBuffer, as the operators below pass it around.
BufState == [queue |-> queue, last_flush_at |-> last_flush_at, db |-> db]

(***************************************************************************)
(* InMemoryBuffer::handle_overflow: what the body of the async fn does     *)
(* when the future is polled. ret is the Ok(bool) it returns; waiting is   *)
(* TRUE when the body would be suspended on notify.notified().             *)
(***************************************************************************)
handle_overflow(c, q) ==
    CASE c.overflow_policy = "drop_newest" ->
            [queue |-> q, ret |-> FALSE, waiting |-> FALSE]
      [] c.overflow_policy = "drop_oldest" ->
            [queue |-> IF q = <<>> THEN q ELSE Tail(q), ret |-> TRUE, waiting |-> FALSE]
      [] c.overflow_policy = "block_with_backpressure" ->
            [queue |-> q, ret |-> FALSE, waiting |-> Len(q) >= c.buffer_capacity]
      [] c.overflow_policy = "grow_capacity" ->
            [queue |-> q, ret |-> TRUE, waiting |-> FALSE]
      [] OTHER ->
            [queue |-> q, ret |-> FALSE, waiting |-> FALSE]

\* `self.handle_overflow();` (line 241): the call of an async fn builds a
\* future; the statement drops it without .await, so its body never runs and
\* the queue is the one before the call.
unawaited(future, q) == q

(***************************************************************************)
(* InMemoryBuffer::flush. persistOk is the outcome of the SQLite           *)
(* transaction (begin, inserts, commit); a failed transaction inserts no   *)
(* row. res is "None", "Some" (with batch) or "Err".                       *)
(***************************************************************************)
should_flush(c, st, t) ==
    LET flush_by_batch_size == Len(st.queue) >= c.batch_size
        flush_by_batch_timeout_ms == (t - st.last_flush_at) > c.batch_timeout_ms
    IN  CASE c.flush_policy = "batch_size" -> flush_by_batch_size
          [] c.flush_policy = "batch_timeout" -> flush_by_batch_timeout_ms
          [] c.flush_policy = "hybrid_size_timeout" ->
                flush_by_batch_size \/ flush_by_batch_timeout_ms
          [] OTHER -> FALSE

flush_count_whole(c, st) == Len(st.queue)

flush_count(c, st) ==
    IF c.flush_policy \in {"batch_size", "hybrid_size_timeout"}
    THEN Min(c.batch_size, Len(st.queue))
    ELSE Len(st.queue)

flush(c, st, t, persistOk) ==
    IF ~should_flush(c, st, t)
    THEN [st |-> st, res |-> "None", batch |-> <<>>]
    ELSE LET n == flush_count(c, st)
             drained_logs == Front(st.queue, n)
             remaining == Rest(st.queue, n)
         IN  IF c.durability = "SQLite"
             THEN IF persistOk
                  THEN [st |-> [queue |-> remaining, last_flush_at |-> t,
                                db |-> st.db \o drained_logs],
                        res |-> "Some", batch |-> drained_logs]
                  ELSE [st |-> [st EXCEPT !.queue = remaining],
                        res |-> "Err", batch |-> <<>>]
             ELSE [st |-> [queue |-> remaining, last_flush_at |-> t, db |-> st.db],
                   res |-> "Some", batch |-> drained_logs]

(***************************************************************************)
(* InMemoryBuffer::push. lost is what the overflow handling removed or     *)
(* rejected; inner is the result of the flush that SQLite mode runs and    *)
(* whose batch push discards.                                              *)
(***************************************************************************)
push(c, st, log, t, persistOk) ==
    LET full == c.buffer_capacity > 0 /\ Len(st.queue) >= c.buffer_capacity
        q1 == IF full THEN unawaited(handle_overflow(c, st.queue), st.queue)
              ELSE st.queue
        lost == Range(st.queue) \ Range(q1)
        st1 == [st EXCEPT !.queue = Append(q1, log)]
    IN  IF c.durability = "InMemory"
        THEN [st |-> st1, res |-> "Ok", lost |-> lost,
              inner |-> [res |-> "None", batch |-> <<>>]]
        ELSE LET f == flush(c, st1, t, persistOk)
             IN  [st |-> f.st,
                  res |-> IF f.res = "Err" THEN "Err" ELSE "Ok",
                  lost |-> lost,
                  inner |-> [res |-> f.res, batch |-> f.batch]]

(***************************************************************************)
(* InMemoryBuffer::flush_remaining_logs: returns Result<()>, no batch.     *)
(***************************************************************************)
flush_remaining_logs(c, st, t, persistOk) ==
    IF st.queue = <<>>
    THEN [st |-> st, res |-> "Ok"]
    ELSE LET drained_logs == st.queue
         IN  IF c.durability = "SQLite"
             THEN IF persistOk
                  THEN [st |-> [queue |-> <<>>, last_flush_at |-> t,
                                db |-> st.db \o drained_logs],
                        res |-> "Ok"]
                  ELSE [st |-> [st EXCEPT !.queue = <<>>], res |-> "Err"]
             ELSE [st |-> [queue |-> <<>>, last_flush_at |-> t, db |-> st.db],
                   res |-> "Ok"]

(***************************************************************************)
(* InMemoryBuffer::drain.                                                  *)
(***************************************************************************)
drain(c, st, t) ==
    CASE c.drain_policy = "drain_all" ->
            [st EXCEPT !.queue = <<>>]
      [] c.drain_policy = "drain_batch_size" ->
            IF Len(st.queue) >= c.batch_size
            THEN [st EXCEPT !.queue = Rest(st.queue, c.batch_size)]
            ELSE st
      [] c.drain_policy = "drain_batch_timeout" ->
            IF (t - st.last_flush_at) > c.batch_timeout_ms
            THEN [st EXCEPT !.queue = <<>>]
            ELSE st
      [] OTHER -> st

(***************************************************************************)
(* InMemoryBuffer::shutdown: flushes what is left (an error is logged and  *)
(* swallowed) and returns Ok.                                              *)
(***************************************************************************)
shutdown(c, st, t, persistOk) ==
    IF st.queue # <<>>
    THEN flush_remaining_logs(c, st, t, persistOk).st
    ELSE st

(***************************************************************************)
(* The tailed files of the pipeline, and the pipeline at rest.             *)
(***************************************************************************)
Files == {1, 2}

\* Shipper::new: mpsc::channel(1).
HandoffCapacity == 1

\* The paths of the watched directory, the extension valid_file_format sees
\* in each, and the inode numbers; 0 stands for "no inode" (inode_for
\* returning None, determine_file_state's default).
Paths == {"a.log", "a.log.1"}

Extension == [p \in Paths |-> IF p = "a.log" THEN "log" ELSE "1"]

Inodes == 1..MaxInodes

\* HashMap::new, insert and remove.
EmptyMap == [k \in {} |-> 0]

Put(m, k, v) == [j \in DOMAIN m \cup {k} |-> IF j = k THEN v ELSE m[j]]

Del(m, k) == [j \in DOMAIN m \ {k} |-> m[j]]

NoPayload == [kind |-> "none"]

NoBase == [tailers |-> EmptyMap, ntasks |-> 0]

\* Option<u64> of ShipperConfig.max_reconnect_attempts: None, or Some(n).
Unset == <<>>

Limit(n) == <<n>>

RetryIdle ==
    /\ rcfg = [initial_retry_delay_ms |-> 0, max_retry_delay_ms |-> 0,
               backoff_factor |-> 10, retry_jitter |-> 0,
               max_reconnect_attempts |-> Unset]
    /\ attempts = 0
    /\ delay = 0
    /\ sleeps = <<>>
    /\ rstate = "idle"

\* The .log files of the collector's log_dir, and their inodes.
LogFiles == {"app.log", "sys.log"}

LogInode(p) == IF p = "app.log" THEN 1 ELSE 2

NoTailer == [state |-> "none", file_offset |-> 0, pos |-> 0, read |-> {}, fragments |-> {}]

CheckpointIdle ==
    /\ lfile = [p \in LogFiles |-> <<>>]
    /\ ckfile = EmptyMap
    /\ checkpoint = EmptyMap
    /\ ltail = [p \in LogFiles |-> NoTailer]
    /\ lphase = "off"
    /\ lrun = 0
    /\ before = [p \in LogFiles |-> {}]
    /\ persisted = EmptyMap

\* The receivers of the Shutdown channel.
Receivers == 1..MaxReceivers

NoReceiver == [state |-> "none", next |-> 0, seen |-> 0, early |-> FALSE]

ShutdownIdle ==
    /\ bsent = 0
    /\ triggered = FALSE
    /\ rxs = [r \in Receivers |-> NoReceiver]

LogWatcherIdle ==
    /\ ldir = [p \in LogFiles |-> 0]
    /\ levents = <<>>
    /\ active_files = EmptyMap
    /\ lops = 0

ExtIdle == RetryIdle /\ CheckpointIdle /\ ShutdownIdle /\ LogWatcherIdle

AgentIdle ==
    /\ fs = [p \in Paths |-> 0]
    /\ size = [i \in Inodes |-> 0]
    /\ fsq = <<>>
    /\ nops = 0
    /\ wphase = "idle"
    /\ ckpt = EmptyMap
    /\ wq = <<>>
    /\ mrun = FALSE
    /\ mcur = NoPayload
    /\ pending = <<>>
    /\ mbase = NoBase
    /\ tailers = EmptyMap
    /\ tasks = <<>>
    /\ emitted = <<>>
    /\ outputOpen = FALSE
    /\ ignored = {}

CollectorIdle ==
    /\ tpos = [f \in Files |-> 0]
    /\ tstate = [f \in Files |-> "done"]
    /\ sendbuf = <<>>
    /\ chan = <<>>
    /\ wstate = "exited"
    /\ wsignal = "idle"
    /\ conn = 0
    /\ wire = <<>>
    /\ handed = {}
    /\ enqueued = <<>>
    /\ phase = "done"

(***************************************************************************)
(* SpecBuffer: the InMemoryBuffer API called directly.                     *)
(***************************************************************************)
\* InMemoryBuffer::new: empty queue, last_flush_at = now, empty table.
InitBuffer ==
    /\ ExtIdle
    /\ cfg \in BufferConfigs
    /\ queue = <<>>
    /\ last_flush_at = 0
    /\ db = <<>>
    /\ now = 0
    /\ closed = FALSE
    /\ calls = 0
    /\ pushed = <<>>
    /\ dropped = {}
    /\ returned = {}
    /\ quiet = TRUE
    /\ last = [op |-> "new", res |-> "Ok"]
    /\ CollectorIdle
    /\ AgentIdle

\* The outcome of a SQLite transaction is an input; InMemory has none.
PersistOutcomes == IF cfg.durability = "SQLite" THEN BOOLEAN ELSE {TRUE}

IsFull == cfg.buffer_capacity > 0 /\ Len(queue) >= cfg.buffer_capacity

SetBuf(st) ==
    /\ queue' = st.queue
    /\ last_flush_at' = st.last_flush_at
    /\ db' = st.db

BufPush ==
    /\ ~closed
    /\ calls < MaxPush
    /\ calls' = calls + 1
    /\ \E persistOk \in PersistOutcomes :
         LET log == <<0, calls + 1>>
             r == push(cfg, BufState, log, now, persistOk)
         IN  /\ SetBuf(r.st)
             /\ pushed' = IF r.res = "Ok" THEN Append(pushed, log) ELSE pushed
             /\ dropped' = dropped \cup r.lost
             /\ returned' = returned \cup Range(r.inner.batch)
             /\ quiet' = (quiet /\ r.inner.res = "None")
             /\ last' = [op |-> "push", res |-> r.res]
    /\ UNCHANGED <<cfg, now, closed>>

BufFlush ==
    /\ ~closed
    /\ \E persistOk \in PersistOutcomes :
         LET r == flush(cfg, BufState, now, persistOk)
         IN  /\ SetBuf(r.st)
             /\ returned' = returned \cup Range(r.batch)
             /\ quiet' = (quiet /\ r.res = "None")
             /\ last' = [op |-> "flush", res |-> r.res, batch |-> r.batch]
    /\ UNCHANGED <<cfg, now, closed, calls, pushed, dropped>>

BufFlushRemaining ==
    /\ ~closed
    /\ \E persistOk \in PersistOutcomes :
         LET r == flush_remaining_logs(cfg, BufState, now, persistOk)
         IN  /\ SetBuf(r.st)
             /\ last' = [op |-> "flush_remaining_logs", res |-> r.res]
    /\ quiet' = FALSE
    /\ UNCHANGED <<cfg, now, closed, calls, pushed, dropped, returned>>

BufDrain ==
    /\ ~closed
    /\ SetBuf(drain(cfg, BufState, now))
    /\ quiet' = FALSE
    /\ last' = [op |-> "drain", res |-> "Ok"]
    /\ UNCHANGED <<cfg, now, closed, calls, pushed, dropped, returned>>

BufShutdown ==
    /\ ~closed
    /\ \E persistOk \in PersistOutcomes :
         SetBuf(shutdown(cfg, BufState, now, persistOk))
    /\ closed' = TRUE
    /\ quiet' = FALSE
    /\ last' = [op |-> "shutdown", res |-> "Ok"]
    /\ UNCHANGED <<cfg, now, calls, pushed, dropped, returned>>

\* Wall-clock time passes.
Tick ==
    /\ now < MaxTime
    /\ now' = now + 1
    /\ UNCHANGED <<cfg, queue, last_flush_at, db, closed, obsVars>>

NextBuffer ==
    \/ BufPush /\ UNCHANGED <<colVars, agtVars, extVars>>
    \/ BufFlush /\ UNCHANGED <<colVars, agtVars, extVars>>
    \/ BufFlushRemaining /\ UNCHANGED <<colVars, agtVars, extVars>>
    \/ BufDrain /\ UNCHANGED <<colVars, agtVars, extVars>>
    \/ BufShutdown /\ UNCHANGED <<colVars, agtVars, extVars>>
    \/ Tick /\ UNCHANGED <<colVars, agtVars, extVars>>

SpecBuffer == InitBuffer /\ [][NextBuffer]_vars

(***************************************************************************)
(* helpers/log_processing.rs process_log_line: parse, push, then flush     *)
(* when the size or the timeout threshold is reached, and hand the batch   *)
(* to the Shipper. parseOk is the result of select_parser; ok1 and ok2 are *)
(* the outcomes of the SQLite transactions of the flush inside push and of *)
(* the flush of line 126. The send itself is done by the caller below,     *)
(* since it can suspend.                                                   *)
(***************************************************************************)
process_log_line(c, st, line, parseOk, t, ok1, ok2) ==
    IF ~parseOk
    THEN [st |-> st, res |-> "ParseErr", accepted |-> FALSE, batch |-> <<>>,
          inner |-> <<>>]
    ELSE LET p == push(c, st, line, t, ok1)
         IN  IF p.res = "Err"
             THEN [st |-> p.st, res |-> "PushErr", accepted |-> FALSE,
                   batch |-> <<>>, inner |-> p.inner.batch]
             ELSE LET queue_len == Len(p.st.queue)
                      size_triggered == queue_len >= c.batch_size
                      timeout_triggered ==
                          (t - p.st.last_flush_at) >= c.batch_timeout_ms
                  IN  IF ~(size_triggered \/ timeout_triggered)
                      THEN [st |-> p.st, res |-> "Buffered", accepted |-> TRUE,
                            batch |-> <<>>, inner |-> p.inner.batch]
                      ELSE LET f == flush(c, p.st, t, ok2)
                           IN  CASE f.res = "Some" ->
                                      [st |-> f.st, res |-> "Send", accepted |-> TRUE,
                                       batch |-> f.batch, inner |-> p.inner.batch]
                                 [] f.res = "None" ->
                                      [st |-> f.st, res |-> "NoLogs", accepted |-> TRUE,
                                       batch |-> <<>>, inner |-> p.inner.batch]
                                 [] OTHER ->
                                      [st |-> f.st, res |-> "FlushErr", accepted |-> TRUE,
                                       batch |-> <<>>, inner |-> p.inner.batch]

(***************************************************************************)
(* SpecLine: process_log_line called on the buffer line after line, as a   *)
(* Tailer does for the lines it reads (tailer.rs:150-152), with time       *)
(* passing in between. Nothing else calls flush: the read_line arm of      *)
(* run_tailer sleeps when it reads no bytes. inner is the batch that the   *)
(* flush inside push returned, batch the one passed to Shipper::send.      *)
(***************************************************************************)
ProcessLogLine ==
    /\ ~closed
    /\ calls < MaxPush
    /\ calls' = calls + 1
    /\ \E parseOk \in BOOLEAN, ok1 \in PersistOutcomes, ok2 \in PersistOutcomes :
         LET line == <<0, calls + 1>>
             r == process_log_line(cfg, BufState, line, parseOk, now, ok1, ok2)
         IN  /\ SetBuf(r.st)
             /\ pushed' = IF r.accepted THEN Append(pushed, line) ELSE pushed
             /\ dropped' = dropped \cup
                    IF parseOk THEN push(cfg, BufState, line, now, ok1).lost ELSE {}
             /\ returned' = returned \cup Range(r.inner) \cup Range(r.batch)
             /\ quiet' = (quiet /\ r.inner = <<>> /\ r.res # "Send")
             /\ last' = [op |-> "process_log_line", res |-> r.res,
                         batch |-> r.batch, inner |-> r.inner]
    /\ UNCHANGED <<cfg, now, closed>>

NextLine ==
    \/ ProcessLogLine /\ UNCHANGED <<colVars, agtVars, extVars>>
    \/ Tick /\ UNCHANGED <<colVars, agtVars, extVars>>

SpecLine == InitBuffer /\ [][NextLine]_vars

\* Time passes whatever the Tailers do; lines arrive only when a file grows.
SpecLineFair == SpecLine /\ WF_now(Tick /\ UNCHANGED <<colVars, agtVars, extVars>>)

(***************************************************************************)
(* SpecCollector: the log-collector pipeline. One Tailer per file reads    *)
(* its lines in order and runs process_log_line under the buffer and       *)
(* shipper mutexes; the Shipper worker forwards the handoff channel to the *)
(* request stream; run_log_collector shuts the stages down.                *)
(***************************************************************************)
CollectorConfigs ==
    {c \in BufferConfigs : /\ c.overflow_policy = "drop_oldest"
                           /\ c.buffer_capacity = MaxCapacity
                           /\ c.batch_size \in {1, MaxBatchSize}}

InitCollector ==
    /\ ExtIdle
    /\ cfg \in CollectorConfigs
    /\ queue = <<>>
    /\ last_flush_at = 0
    /\ db = <<>>
    /\ now = 0
    /\ closed = FALSE
    /\ calls = 0
    /\ pushed = <<>>
    /\ dropped = {}
    /\ returned = {}
    /\ quiet = TRUE
    /\ last = [op |-> "new", res |-> "Ok"]
    /\ tpos = [f \in Files |-> 0]
    /\ tstate = [f \in Files |-> "running"]
    /\ sendbuf = <<>>
    /\ chan = <<>>
    /\ wstate = "connecting"
    /\ wsignal = "idle"
    /\ conn = 0
    /\ wire = <<>>
    /\ handed = {}
    /\ enqueued = <<>>
    /\ phase = "running"
    /\ AgentIdle

\* The buffer and shipper mutexes (tailer.rs:150-151, runtime.rs:327-331): a
\* Tailer holds both for the whole of process_log_line, run_log_collector
\* holds the buffer's from its shutdown on.
LockFree ==
    /\ \A f \in Files : tstate[f] # "sending"
    /\ phase \in {"running", "stopping", "detached"}

\* Shipper::send: sender.send(batch).await waits for a free slot and fails
\* only when the worker has dropped the receiver.
ShipperSend(f, batch) ==
    IF wstate = "exited"
    THEN /\ tstate' = [tstate EXCEPT ![f] = "running"]
         /\ UNCHANGED <<chan, handed, enqueued, sendbuf>>
    ELSE IF Len(chan) < HandoffCapacity
    THEN /\ chan' = Append(chan, batch)
         /\ handed' = handed \cup Range(batch)
         /\ enqueued' = enqueued \o batch
         /\ tstate' = [tstate EXCEPT ![f] = "running"]
         /\ sendbuf' = <<>>
    ELSE /\ tstate' = [tstate EXCEPT ![f] = "sending"]
         /\ sendbuf' = batch
         /\ UNCHANGED <<chan, handed, enqueued>>

\* Tailer::run_tailer, the read_line arm with bytes > 0.
TailerLine(f) ==
    /\ tstate[f] = "running"
    /\ tpos[f] < LinesPerFile
    /\ LockFree
    /\ \E parseOk \in BOOLEAN, ok1 \in PersistOutcomes, ok2 \in PersistOutcomes :
         LET line == <<f, tpos[f] + 1>>
             r == process_log_line(cfg, BufState, line, parseOk, now, ok1, ok2)
         IN  /\ SetBuf(r.st)
             /\ pushed' = IF r.accepted THEN Append(pushed, line) ELSE pushed
             /\ IF r.res = "Send"
                THEN ShipperSend(f, r.batch)
                ELSE UNCHANGED <<tstate, sendbuf, chan, handed, enqueued>>
    /\ tpos' = [tpos EXCEPT ![f] = @ + 1]
    /\ UNCHANGED <<cfg, now, closed, calls, dropped, returned, quiet, last>>
    /\ UNCHANGED <<wstate, wsignal, conn, wire, phase>>

\* The suspended sender.send(batch).await of a Tailer completes.
TailerSendDone(f) ==
    /\ tstate[f] = "sending"
    /\ wstate = "exited" \/ Len(chan) < HandoffCapacity
    /\ ShipperSend(f, sendbuf)
    /\ UNCHANGED <<bufVars, obsVars, tpos, wstate, wsignal, conn, wire, phase>>

\* Tailer::run_tailer, the shutdown arm: flush_remaining_logs, then break.
TailerShutdown(f) ==
    /\ phase \in {"stopping", "detached"}
    /\ tstate[f] = "running"
    /\ LockFree
    /\ \E persistOk \in PersistOutcomes :
         SetBuf(flush_remaining_logs(cfg, BufState, now, persistOk).st)
    /\ tstate' = [tstate EXCEPT ![f] = "done"]
    /\ UNCHANGED <<cfg, now, closed, obsVars>>
    /\ UNCHANGED <<tpos, sendbuf, chan, wstate, wsignal, conn, wire, handed, enqueued, phase>>

\* run_worker: connect_with_retry and embed_log succeeded.
WorkerConnect ==
    /\ wstate = "connecting"
    /\ wsignal # "taken"
    /\ conn < MaxConn
    /\ wstate' = "streaming"
    /\ conn' = conn + 1
    /\ UNCHANGED <<bufVars, obsVars, tpos, tstate, sendbuf, chan, wsignal, wire, handed, enqueued, phase>>

\* run_worker, `for log in batch { out_tx.send(log) }` while the stream
\* takes k logs: the first k logs of the batch, in the order of the batch,
\* on connection c.
forward_batch_reversed(batch, k, c) ==
    [i \in 1..k |-> [conn |-> c, log |-> batch[Len(batch) + 1 - i]]]

forward_batch(batch, k, c) ==
    [i \in 1..k |-> [conn |-> c, log |-> batch[i]]]

\* run_worker, the rx.recv() arm: the logs of the batch go to out_tx one by
\* one; a failed out_tx.send breaks the for loop and the rest of the batch
\* is dropped. k is the number of logs sent before the stream closes.
WorkerRecv ==
    /\ wstate \in {"streaming", "broken"}
    /\ chan # <<>>
    /\ LET batch == Head(chan)
       IN  \E k \in 0..Len(batch) :
             /\ wstate = "broken" => k = 0
             /\ wire' = wire \o forward_batch(batch, k, conn)
             /\ wstate' = IF k < Len(batch) THEN "broken" ELSE wstate
    /\ chan' = Tail(chan)
    /\ UNCHANGED <<bufVars, obsVars, tpos, tstate, sendbuf, wsignal, conn, handed, enqueued, phase>>

\* run_worker, the response_stream.message() arm with an error or the end
\* of the stream: break to the outer loop and connect again.
WorkerStreamEnd ==
    /\ wstate \in {"streaming", "broken"}
    /\ wstate' = "connecting"
    /\ UNCHANGED <<bufVars, obsVars, tpos, tstate, sendbuf, chan, wsignal, conn, wire, handed, enqueued, phase>>

\* run_worker, the shutdown arm of the inner loop: try_recv drains the
\* channel into out_tx, ignoring send errors; the loop then goes on.
\* k is the number of logs sent before the stream closes.
WorkerDrain ==
    /\ wstate \in {"streaming", "broken"}
    /\ wsignal = "sent"
    /\ LET logs == IF chan = <<>> THEN <<>> ELSE Head(chan)
       IN  \E k \in 0..Len(logs) :
             /\ wstate = "broken" => k = 0
             /\ wire' = wire \o forward_batch(logs, k, conn)
             /\ wstate' = IF k < Len(logs) THEN "broken" ELSE wstate
    /\ chan' = <<>>
    /\ wsignal' = "taken"
    /\ UNCHANGED <<bufVars, obsVars, tpos, tstate, sendbuf, conn, handed, enqueued, phase>>

\* run_worker ends: the shutdown arm of the outer loop returns, or the
\* completed oneshot receiver is polled again by the next select! and
\* panics. The receiver of the handoff channel is dropped with its batches.
WorkerExit ==
    /\ \/ wstate = "connecting" /\ wsignal = "sent"
       \/ wstate # "exited" /\ wsignal = "taken"
    /\ wstate' = "exited"
    /\ chan' = <<>>
    /\ UNCHANGED <<bufVars, obsVars, tpos, tstate, sendbuf, wsignal, conn, wire, handed, enqueued, phase>>

\* The global shutdown is triggered; LogWatcher::shutdown signals every
\* Tailer.
Trigger ==
    /\ phase = "running"
    /\ phase' = "stopping"
    /\ UNCHANGED <<bufVars, obsVars, tpos, tstate, sendbuf, chan, wstate, wsignal, conn, wire, handed, enqueued>>

\* The watcher task of run_log_collector: run_watcher has taken the event
\* from shutdown_rx1 and waits in LogWatcher::shutdown for a Tailer's
\* handle; the outer select! then takes the event from shutdown_rx2 and
\* drops run_watcher with its drain(..) of tailer_handles, so that the
\* second LogWatcher::shutdown finds no handle to await and the task ends
\* with Tailers still running.
WatcherTaskSelect ==
    /\ phase = "stopping"
    /\ \E f \in Files : tstate[f] # "done"
    /\ phase' = "detached"
    /\ UNCHANGED <<bufVars, obsVars, tpos, tstate, sendbuf, chan, wstate, wsignal, conn, wire, handed, enqueued>>

\* run_log_collector after the task handles are joined: buffer.lock(),
\* buf.shutdown().
RuntimeBufferShutdown ==
    /\ phase \in {"stopping", "detached"}
    /\ phase = "stopping" => \A f \in Files : tstate[f] = "done"
    /\ \A f \in Files : tstate[f] # "sending"
    /\ \E persistOk \in PersistOutcomes :
         SetBuf(shutdown(cfg, BufState, now, persistOk))
    /\ closed' = TRUE
    /\ phase' = "buffer_down"
    /\ UNCHANGED <<cfg, now, obsVars>>
    /\ UNCHANGED <<tpos, tstate, sendbuf, chan, wstate, wsignal, conn, wire, handed, enqueued>>

\* Shipper::shutdown: send the oneshot signal, then await the worker.
RuntimeShipperShutdown ==
    /\ phase = "buffer_down"
    /\ wsignal' = "sent"
    /\ phase' = "shipper_down"
    /\ UNCHANGED <<bufVars, obsVars, tpos, tstate, sendbuf, chan, wstate, conn, wire, handed, enqueued>>

RuntimeDone ==
    /\ phase = "shipper_down"
    /\ wstate = "exited"
    /\ phase' = "done"
    /\ UNCHANGED <<bufVars, obsVars, tpos, tstate, sendbuf, chan, wstate, wsignal, conn, wire, handed, enqueued>>

NextCollector ==
    \/ \E f \in Files : TailerLine(f) /\ UNCHANGED <<agtVars, extVars>>
    \/ \E f \in Files : TailerSendDone(f) /\ UNCHANGED <<agtVars, extVars>>
    \/ \E f \in Files : TailerShutdown(f) /\ UNCHANGED <<agtVars, extVars>>
    \/ WorkerConnect /\ UNCHANGED <<agtVars, extVars>>
    \/ WorkerRecv /\ UNCHANGED <<agtVars, extVars>>
    \/ WorkerStreamEnd /\ UNCHANGED <<agtVars, extVars>>
    \/ WorkerDrain /\ UNCHANGED <<agtVars, extVars>>
    \/ WorkerExit /\ UNCHANGED <<agtVars, extVars>>
    \/ Trigger /\ UNCHANGED <<agtVars, extVars>>
    \/ WatcherTaskSelect /\ UNCHANGED <<agtVars, extVars>>
    \/ RuntimeBufferShutdown /\ UNCHANGED <<agtVars, extVars>>
    \/ RuntimeShipperShutdown /\ UNCHANGED <<agtVars, extVars>>
    \/ RuntimeDone /\ UNCHANGED <<agtVars, extVars>>
    \/ Tick /\ UNCHANGED <<colVars, agtVars, extVars>>

SpecCollector == InitCollector /\ [][NextCollector]_vars

\* The runtime schedules every task that can run, and a send or a lock that
\* can complete does complete. Whether the embedder accepts a connection or
\* ends a stream, whether a file has a line to read and which arm a select!
\* with several ready arms takes are not the collector's to decide.
SpecCollectorFair ==
    /\ SpecCollector
    /\ \A f \in Files : WF_colVars(TailerSendDone(f) /\ UNCHANGED <<agtVars, extVars>>)
    /\ \A f \in Files : WF_colVars(TailerShutdown(f) /\ UNCHANGED <<agtVars, extVars>>)
    /\ WF_colVars(WorkerRecv /\ UNCHANGED <<agtVars, extVars>>)
    /\ WF_colVars(WorkerDrain /\ UNCHANGED <<agtVars, extVars>>)
    /\ WF_colVars(WorkerExit /\ UNCHANGED <<agtVars, extVars>>)
    /\ WF_colVars(RuntimeBufferShutdown /\ UNCHANGED <<agtVars, extVars>>)
    /\ WF_colVars(RuntimeShipperShutdown /\ UNCHANGED <<agtVars, extVars>>)
    /\ WF_colVars(RuntimeDone /\ UNCHANGED <<agtVars, extVars>>)

(***************************************************************************)
(* core-agent Watcher (watcher/*.rs). A WatcherEvent and the               *)
(* WatcherPayload that carries it are one record: for FileRotated, inode   *)
(* and path are the new ones, as in the payload build_payload makes.       *)
(***************************************************************************)
FileDiscovered(inode, path) ==
    [kind |-> "FileDiscovered", inode |-> inode, path |-> path,
     old_inode |-> 0, old_path |-> "", written |-> 0]

FileRotated(old_inode, new_inode, old_path, new_path) ==
    [kind |-> "FileRotated", inode |-> new_inode, path |-> new_path,
     old_inode |-> old_inode, old_path |-> old_path, written |-> 0]

FileRemoved(inode, path) ==
    [kind |-> "FileRemoved", inode |-> inode, path |-> path,
     old_inode |-> 0, old_path |-> "", written |-> 0]

\* discovery.rs valid_file_format: a file whose extension is log or txt.
valid_file_format(path) == Extension[path] \in {"log", "txt"}

\* state.rs determine_file_state: the inode and the length from the
\* metadata of the path; the offset of the FileState is the length.
determine_file_state(path, f, sz) ==
    IF f[path] = 0
    THEN [path |-> path, inode |-> 0, offset |-> 0]
    ELSE [path |-> path, inode |-> f[path], offset |-> sz[f[path]]]

\* The loop of discover_initial_files and of discover_new_files over the
\* paths the walker yields: a file whose inode has no Checkpoint entry gets
\* one and a FileDiscovered payload is sent for it.
RECURSIVE discover_files(_, _, _, _, _)
discover_files(walk, f, sz, ck, out) ==
    IF walk = <<>>
    THEN [ckpt |-> ck, out |-> out]
    ELSE LET path == Head(walk)
             state == determine_file_state(path, f, sz)
             inode == state.inode
         IN  IF ~valid_file_format(path) \/ inode \in DOMAIN ck
             THEN discover_files(Tail(walk), f, sz, ck, out)
             ELSE discover_files(Tail(walk), f, sz,
                                 Put(ck, inode, [path |-> path, offset |-> state.offset]),
                                 Append(out, FileDiscovered(inode, path)))

\* build_walker: the entries of log_dir that exist.
RECURSIVE build_walker(_, _)
build_walker(order, f) ==
    IF order = <<>> THEN <<>>
    ELSE IF f[Head(order)] = 0 THEN build_walker(Tail(order), f)
    ELSE <<Head(order)>> \o build_walker(Tail(order), f)

WalkOrders == {<<"a.log", "a.log.1">>, <<"a.log.1", "a.log">>}

discover_initial_files(walk, f, sz, ck, out) == discover_files(walk, f, sz, ck, out)

discover_new_files(walk, f, sz, ck, out) == discover_files(walk, f, sz, ck, out)

\* events.rs inode_for and translate_event: the inodes are resolved from
\* the paths when the event is handled, not when it happened.
inode_for(path, f) == f[path]

watcher_translate_event(event, f) ==
    CASE event.kind = "Create" ->
           IF inode_for(event.paths[1], f) # 0
           THEN <<FileDiscovered(inode_for(event.paths[1], f), event.paths[1])>>
           ELSE <<>>
      [] event.kind = "Rename" ->
           LET old_path == event.paths[1]
               new_path == event.paths[2]
               old_inode == inode_for(old_path, f)
               new_inode == inode_for(new_path, f)
           IN  IF old_inode # 0 /\ new_inode # 0
               THEN <<FileRotated(old_inode, new_inode, old_path, new_path)>>
               ELSE <<>>
      [] event.kind = "Remove" ->
           IF inode_for(event.paths[1], f) # 0
           THEN <<FileRemoved(inode_for(event.paths[1], f), event.paths[1])>>
           ELSE <<>>
      [] OTHER -> <<>>

\* Watcher::build_payload: the Checkpoint after the event.
build_payload(ck, event) ==
    CASE event.kind = "FileDiscovered" ->
           Put(ck, event.inode, [path |-> event.path, offset |-> 0])
      [] event.kind = "FileRotated" ->
           Put(Del(ck, event.old_inode), event.inode,
               [path |-> event.path, offset |-> 0])
      [] OTHER -> Del(ck, event.inode)

\* The for loop of the fs_rx arm of Watcher::run over the translated events.
RECURSIVE build_payloads(_, _)
build_payloads(ck, events) ==
    IF events = <<>> THEN ck
    ELSE build_payloads(build_payload(ck, Head(events)), Tail(events))

(***************************************************************************)
(* SpecWatcher: the core-agent Watcher over a directory that the           *)
(* environment changes while it runs.                                      *)
(***************************************************************************)
BufferIdle ==
    /\ cfg = CHOOSE c \in BufferConfigs : TRUE
    /\ queue = <<>>
    /\ last_flush_at = 0
    /\ db = <<>>
    /\ now = 0
    /\ closed = TRUE
    /\ calls = 0
    /\ pushed = <<>>
    /\ dropped = {}
    /\ returned = {}
    /\ quiet = TRUE
    /\ last = [op |-> "new", res |-> "Ok"]

ManagerIdle ==
    /\ mrun = FALSE
    /\ mcur = NoPayload
    /\ pending = <<>>
    /\ mbase = NoBase
    /\ tailers = EmptyMap
    /\ tasks = <<>>
    /\ emitted = <<>>
    /\ outputOpen = FALSE
    /\ ignored = {}

\* No two paths name one inode, and only a file that exists has a length.
Directories ==
    {f \in [Paths -> 0..MaxInodes] :
        \A p \in Paths : \A q \in Paths : (p # q /\ f[p] # 0) => f[p] # f[q]}

Linked(f) == {f[p] : p \in Paths} \ {0}

\* The Checkpoint handed to Watcher::new: empty, or the entry an earlier run
\* left for a file that is still there.
LoadedCheckpoints(f, sz) ==
    {EmptyMap} \cup
    {[i \in {f["a.log"]} |-> [path |-> "a.log", offset |-> o]] :
        o \in IF f["a.log"] = 0 THEN {} ELSE 0..sz[f["a.log"]]}

InitWatcher ==
    /\ ExtIdle
    /\ BufferIdle
    /\ CollectorIdle
    /\ ManagerIdle
    /\ fs \in Directories
    /\ size \in {sz \in [Inodes -> 0..1] : \A i \in Inodes \ Linked(fs) : sz[i] = 0}
    /\ fsq = <<>>
    /\ nops = 0
    /\ wphase = "boot"
    /\ ckpt \in LoadedCheckpoints(fs, size)
    /\ wq = <<>>

Watching == wphase \in {"boot", "running"}

\* A file is created under a path; the inode number is any free one.
FsCreate(p) ==
    /\ Watching /\ nops < MaxFsOps
    /\ fs[p] = 0
    /\ \E i \in Inodes \ Linked(fs) :
         /\ fs' = [fs EXCEPT ![p] = i]
         /\ size' = [size EXCEPT ![i] = 0]
    /\ fsq' = Append(fsq, [kind |-> "Create", paths |-> <<p>>])
    /\ nops' = nops + 1
    /\ UNCHANGED <<wphase, ckpt, wq, mgrVars>>

\* A writer appends to a file (the Modify(Data) event is not translated).
FsWrite(i) ==
    /\ Watching /\ nops < MaxFsOps
    /\ i \in Linked(fs)
    /\ size[i] < MaxSize
    /\ size' = [size EXCEPT ![i] = @ + 1]
    /\ nops' = nops + 1
    /\ UNCHANGED <<fs, fsq, wphase, ckpt, wq, mgrVars>>

\* rename(p, q): q now names the file, what q named before is unlinked.
FsRename(p, q) ==
    /\ Watching /\ nops < MaxFsOps
    /\ p # q /\ fs[p] # 0
    /\ fs' = [fs EXCEPT ![q] = fs[p], ![p] = 0]
    /\ fsq' = Append(fsq, [kind |-> "Rename", paths |-> <<p, q>>])
    /\ nops' = nops + 1
    /\ UNCHANGED <<size, wphase, ckpt, wq, mgrVars>>

FsRemove(p) ==
    /\ Watching /\ nops < MaxFsOps
    /\ fs[p] # 0
    /\ fs' = [fs EXCEPT ![p] = 0]
    /\ fsq' = Append(fsq, [kind |-> "Remove", paths |-> <<p>>])
    /\ nops' = nops + 1
    /\ UNCHANGED <<size, wphase, ckpt, wq, mgrVars>>

\* Watcher::run up to its loop: the notify watcher is registered, then
\* discover_initial_files scans the directory.
WatcherBoot ==
    /\ wphase = "boot"
    /\ \E order \in WalkOrders :
         LET r == discover_initial_files(build_walker(order, fs), fs, size, ckpt, <<>>)
         IN  /\ ckpt' = r.ckpt
             /\ wq' = wq \o r.out
    /\ wphase' = "running"
    /\ UNCHANGED <<fs, size, fsq, nops, mgrVars>>

\* Watcher::run, the ticker arm: discover_new_files.
WatcherTick ==
    /\ wphase = "running"
    /\ \E order \in WalkOrders :
         LET r == discover_new_files(build_walker(order, fs), fs, size, ckpt, <<>>)
         IN  /\ ckpt' = r.ckpt
             /\ wq' = wq \o r.out
    /\ UNCHANGED <<fs, size, fsq, nops, wphase, mgrVars>>

\* Watcher::run, the fs_rx arm: translate_event, then build_payload and
\* output.send for each WatcherEvent.
WatcherFsEvent ==
    /\ wphase = "running"
    /\ fsq # <<>>
    /\ LET events == watcher_translate_event(Head(fsq), fs)
       IN  /\ ckpt' = build_payloads(ckpt, events)
           /\ wq' = wq \o events
    /\ fsq' = Tail(fsq)
    /\ UNCHANGED <<fs, size, nops, wphase, mgrVars>>

\* Watcher::run, the cancel and the shutdown arm.
WatcherStop ==
    /\ wphase = "running"
    /\ wphase' = "stopped"
    /\ UNCHANGED <<fs, size, fsq, nops, ckpt, wq, mgrVars>>

NextWatcher ==
    \/ \E p \in Paths : FsCreate(p) /\ UNCHANGED <<bufVars, obsVars, colVars, extVars>>
    \/ \E i \in Inodes : FsWrite(i) /\ UNCHANGED <<bufVars, obsVars, colVars, extVars>>
    \/ \E p \in Paths : \E q \in Paths : FsRename(p, q) /\ UNCHANGED <<bufVars, obsVars, colVars, extVars>>
    \/ \E p \in Paths : FsRemove(p) /\ UNCHANGED <<bufVars, obsVars, colVars, extVars>>
    \/ WatcherBoot /\ UNCHANGED <<bufVars, obsVars, colVars, extVars>>
    \/ WatcherTick /\ UNCHANGED <<bufVars, obsVars, colVars, extVars>>
    \/ WatcherFsEvent /\ UNCHANGED <<bufVars, obsVars, colVars, extVars>>
    \/ WatcherStop /\ UNCHANGED <<bufVars, obsVars, colVars, extVars>>

SpecWatcher == InitWatcher /\ [][NextWatcher]_vars

(***************************************************************************)
(* core-agent TailerManager and Tailers (tailer/*.rs).                     *)
(***************************************************************************)
\* reader.rs: the size of the read buffer of a TailerReader.
READ_BUFFER_SIZE == 16384

Start(inode, path) == [kind |-> "Start", inode |-> inode, path |-> path]

Stop(inode, path) == [kind |-> "Stop", inode |-> inode, path |-> path]

\* tailer_events.rs translate_event.
tailer_translate_event_start_first(payload) ==
    CASE payload.kind = "FileDiscovered" -> <<Start(payload.inode, payload.path)>>
      [] payload.kind = "FileRotated" ->
           <<Start(payload.inode, payload.path),
             Stop(payload.old_inode, payload.old_path)>>
      [] OTHER -> <<Stop(payload.inode, payload.path)>>

tailer_translate_event(payload) ==
    CASE payload.kind = "FileDiscovered" -> <<Start(payload.inode, payload.path)>>
      [] payload.kind = "FileRotated" ->
           <<Stop(payload.old_inode, payload.old_path),
             Start(payload.inode, payload.path)>>
      [] OTHER -> <<Stop(payload.inode, payload.path)>>

\* Tailer::new, as a spawned task that has not opened its file yet. drainTo
\* and after are observations: the length the file of a Tailer stopped by a
\* rotation had at the rotation (-1 otherwise), and the task the rotation
\* that spawned this one stopped (0 otherwise).
Tailer_new(inode, path, offset) ==
    [inode |-> inode, path |-> path, offset |-> offset, fd |-> 0, pos |-> offset,
     st |-> "spawned", cancelled |-> FALSE, drainTo |-> -1, after |-> 0]

\* tailer.rs start_tailer.
start_tailer_unguarded(inode, path, tl, ts) ==
    [tailers |-> Put(tl, inode, Len(ts) + 1),
     tasks |-> Append(ts, Tailer_new(inode, path, 0))]

start_tailer(inode, path, tl, ts) ==
    IF inode \in DOMAIN tl
    THEN [tailers |-> tl, tasks |-> ts]
    ELSE [tailers |-> Put(tl, inode, Len(ts) + 1),
          tasks |-> Append(ts, Tailer_new(inode, path, 0))]

\* stop_tailer is imported by tailer_events.rs but defined nowhere; the
\* Manager's FileRemoved handling of the specification stands for it:
\* cancel the handle's cancellation signal, await the task's exit, drop the
\* mapping. This is the last of the three.
stop_tailer(inode, tl) == Del(tl, inode)

\* The tailers map after a sequence of TailerEvents, n tasks having been
\* spawned before.
RECURSIVE handle_events(_, _, _)
handle_events(tl, events, n) ==
    IF events = <<>> THEN tl
    ELSE LET e == Head(events)
         IN  IF e.kind = "Stop"
             THEN handle_events(stop_tailer(e.inode, tl), Tail(events), n)
             ELSE IF e.inode \in DOMAIN tl
             THEN handle_events(tl, Tail(events), n)
             ELSE handle_events(Put(tl, e.inode, n + 1), Tail(events), n + 1)

Running(t) == tasks[t].st # "exited"

\* What the Watcher can send: the identities are the ones the paths have.
Payloads ==
    {FileDiscovered(fs[p], p) : p \in {q \in Paths : fs[q] # 0}}
    \cup {FileRemoved(fs[p], p) : p \in {q \in Paths : fs[q] # 0}}
    \cup UNION {{[FileRotated(fs[pq[1]], fs[pq[2]], pq[1], pq[2]) EXCEPT !.written = w] :
                    w \in 0..size[fs[pq[1]]]} :
                pq \in {x \in Paths \X Paths : x[1] # x[2] /\ fs[x[1]] # 0 /\ fs[x[2]] # 0}}

\* The Watcher sends a payload. For a FileRotated, written is the length the
\* file of the old identity had when it was rotated, at most its length now.
Deliver ==
    /\ mrun
    /\ nops < MaxPayloads
    /\ \E payload \in Payloads : wq' = Append(wq, payload)
    /\ nops' = nops + 1
    /\ UNCHANGED <<fs, size, fsq, wphase, ckpt, mgrVars>>

\* A writer appends to a tailed file.
FileGrows(i) ==
    /\ i \in Linked(fs)
    /\ size[i] < MaxSize
    /\ size' = [size EXCEPT ![i] = @ + 1]
    /\ UNCHANGED <<fs, fsq, nops, wphase, ckpt, wq, mgrVars>>

\* TailerManager::run, the watcher_rx arm: translate_event.
MgrRecv ==
    /\ mrun
    /\ mcur = NoPayload
    /\ wq # <<>>
    /\ mcur' = Head(wq)
    /\ pending' = tailer_translate_event(Head(wq))
    /\ mbase' = [tailers |-> tailers, ntasks |-> Len(tasks)]
    /\ wq' = Tail(wq)
    /\ UNCHANGED <<fs, size, fsq, nops, wphase, ckpt>>
    /\ UNCHANGED <<mrun, tailers, tasks, emitted, outputOpen, ignored>>

\* The for loop of the watcher_rx arm moves to the next TailerEvent.
NextEvent ==
    /\ pending' = Tail(pending)
    /\ mcur' = IF Tail(pending) = <<>> THEN NoPayload ELSE mcur
    /\ mbase' = IF Tail(pending) = <<>> THEN NoBase ELSE mbase

\* handle_event, TailerEvent::Start: start_tailer.
MgrStart ==
    /\ pending # <<>>
    /\ Head(pending).kind = "Start"
    /\ LET e == Head(pending)
           r == start_tailer(e.inode, e.path, tailers, tasks)
           spawned == Len(r.tasks) > Len(tasks)
           prev == IF mcur.kind = "FileRotated" /\ mcur.old_inode \in DOMAIN mbase.tailers
                   THEN mbase.tailers[mcur.old_inode] ELSE 0
       IN  /\ tailers' = r.tailers
           /\ tasks' = IF spawned
                       THEN [r.tasks EXCEPT ![Len(r.tasks)].after = prev]
                       ELSE r.tasks
           /\ ignored' = IF spawned THEN ignored ELSE ignored \cup {e.inode}
    /\ NextEvent
    /\ UNCHANGED <<watVars, mrun, emitted, outputOpen>>

\* handle_event, TailerEvent::Stop: stop_tailer cancels the Tailer's token.
MgrStopCancel ==
    /\ pending # <<>>
    /\ Head(pending).kind = "Stop"
    /\ Head(pending).inode \in DOMAIN tailers
    /\ LET t == tailers[Head(pending).inode]
       IN  /\ ~tasks[t].cancelled
           /\ tasks' = [tasks EXCEPT ![t].cancelled = TRUE,
                                     ![t].drainTo = IF mcur.kind = "FileRotated"
                                                    THEN mcur.written ELSE @]
    /\ UNCHANGED <<watVars, mrun, mcur, pending, mbase, tailers, emitted, outputOpen, ignored>>

\* handle_event, TailerEvent::Stop: there is no Tailer for the inode, or the
\* cancelled task has exited; stop_tailer drops the mapping.
MgrStopJoin ==
    /\ pending # <<>>
    /\ Head(pending).kind = "Stop"
    /\ Head(pending).inode \in DOMAIN tailers
         => /\ tasks[tailers[Head(pending).inode]].cancelled
            /\ ~Running(tailers[Head(pending).inode])
    /\ tailers' = stop_tailer(Head(pending).inode, tailers)
    /\ NextEvent
    /\ UNCHANGED <<watVars, mrun, tasks, emitted, outputOpen, ignored>>

\* TailerManager::run, the cancel and the shutdown arm: the loop ends; the
\* Tailers' tokens are children of the cancelled token.
MgrShutdown ==
    /\ mrun
    /\ mcur = NoPayload
    /\ mrun' = FALSE
    /\ tasks' = [t \in DOMAIN tasks |-> [tasks[t] EXCEPT !.cancelled = TRUE]]
    /\ UNCHANGED <<watVars, mcur, pending, mbase, tailers, emitted, outputOpen, ignored>>

\* Tailer::run: File::open(&self.path).
TaskOpen(t) ==
    /\ tasks[t].st = "spawned"
    /\ tasks' = IF fs[tasks[t].path] = 0
                THEN [tasks EXCEPT ![t].st = "exited"]
                ELSE [tasks EXCEPT ![t].st = "reading", ![t].fd = fs[tasks[t].path]]
    /\ UNCHANGED <<watVars, mrun, mcur, pending, mbase, tailers, emitted, outputOpen, ignored>>

\* The stop future handed to TailerReader::new: Tailer::run names it but
\* defines none; the specification's stop future stands for it, which fires
\* with the Tailer's stop/cancellation signal.
stop(task) == task.cancelled

\* ReadUntil::poll_read followed by read_data_chunk's n: once the until
\* future is ready the read is at its end (0 bytes); otherwise the bytes
\* the file has past the position, up to the buffer's size.
poll_read_blind(until_ready, avail) == Min(avail, READ_BUFFER_SIZE)

poll_read(until_ready, avail) ==
    IF until_ready THEN 0 ELSE Min(avail, READ_BUFFER_SIZE)

\* Tailer::run, the read_data_chunk arm with n > 0: the chunk is sent
\* downstream; the send fails when the receiving half is gone, and run
\* returns the error. With n = 0 the arm does nothing and the loop goes on.
TaskRead(t) ==
    /\ tasks[t].st = "reading"
    /\ poll_read(stop(tasks[t]), size[tasks[t].fd] - tasks[t].pos) > 0
    /\ LET n == poll_read(stop(tasks[t]), size[tasks[t].fd] - tasks[t].pos)
       IN  IF outputOpen
           THEN /\ tasks' = [tasks EXCEPT ![t].pos = @ + n]
                /\ emitted' = Append(emitted, [task |-> t, upto |-> tasks[t].pos + n])
           ELSE /\ tasks' = [tasks EXCEPT ![t].pos = @ + n, ![t].st = "exited"]
                /\ UNCHANGED emitted
    /\ UNCHANGED <<watVars, mrun, mcur, pending, mbase, tailers, outputOpen, ignored>>

\* Tailer::run, the cancel.cancelled() arm: break.
TaskCancelled(t) ==
    /\ tasks[t].st = "reading"
    /\ tasks[t].cancelled
    /\ tasks' = [tasks EXCEPT ![t].st = "exited"]
    /\ UNCHANGED <<watVars, mrun, mcur, pending, mbase, tailers, emitted, outputOpen, ignored>>

\* TailerManager::new creates the Tailers' output channel and keeps only the
\* sending half (manager.rs:30): outputOpen is FALSE for the code as it is
\* and TRUE once the next stage holds the receiving half.
InitManager ==
    /\ ExtIdle
    /\ BufferIdle
    /\ CollectorIdle
    /\ fs = [p \in Paths |-> IF p = "a.log" THEN 1 ELSE 2]
    /\ size = [i \in Inodes |-> 0]
    /\ fsq = <<>>
    /\ nops = 0
    /\ wphase = "idle"
    /\ ckpt = EmptyMap
    /\ wq = <<>>
    /\ mrun = TRUE
    /\ mcur = NoPayload
    /\ pending = <<>>
    /\ mbase = NoBase
    /\ tailers = EmptyMap
    /\ tasks = <<>>
    /\ emitted = <<>>
    /\ outputOpen \in BOOLEAN
    /\ ignored = {}

NextManager ==
    \/ Deliver /\ UNCHANGED <<bufVars, obsVars, colVars, extVars>>
    \/ \E i \in Inodes : FileGrows(i) /\ UNCHANGED <<bufVars, obsVars, colVars, extVars>>
    \/ MgrRecv /\ UNCHANGED <<bufVars, obsVars, colVars, extVars>>
    \/ MgrStart /\ UNCHANGED <<bufVars, obsVars, colVars, extVars>>
    \/ MgrStopCancel /\ UNCHANGED <<bufVars, obsVars, colVars, extVars>>
    \/ MgrStopJoin /\ UNCHANGED <<bufVars, obsVars, colVars, extVars>>
    \/ MgrShutdown /\ UNCHANGED <<bufVars, obsVars, colVars, extVars>>
    \/ \E t \in DOMAIN tasks : TaskOpen(t) /\ UNCHANGED <<bufVars, obsVars, colVars, extVars>>
    \/ \E t \in DOMAIN tasks : TaskRead(t) /\ UNCHANGED <<bufVars, obsVars, colVars, extVars>>
    \/ \E t \in DOMAIN tasks : TaskCancelled(t) /\ UNCHANGED <<bufVars, obsVars, colVars, extVars>>

SpecManager == InitManager /\ [][NextManager]_vars

\* Every payload spawns at most one Tailer task.
MaxTasks == MaxPayloads

\* The runtime schedules a spawned task, and select! polls its arms in
\* random order, so an arm that stays ready is taken.
SpecManagerFair ==
    /\ SpecManager
    /\ \A t \in 1..MaxTasks :
         /\ WF_tasks(t \in DOMAIN tasks /\ TaskOpen(t))
         /\ WF_tasks(t \in DOMAIN tasks /\ TaskCancelled(t))

(***************************************************************************)
(* SpecRetry: shipper.rs connect_with_retry. Durations are in ms,          *)
(* backoff_factor is in tenths and retry_jitter and the jitter factor are  *)
(* in percent, so that the f64 arithmetic of the code is exact here.       *)
(***************************************************************************)
RetryConfigs ==
    [initial_retry_delay_ms : {10, 50},
     max_retry_delay_ms : {40, 100},
     backoff_factor : {10, 15, 20},
     retry_jitter : {0, 50},
     max_reconnect_attempts : {Unset} \cup {Limit(n) : n \in 0..MaxLimit}]

\* rand's gen_range(1.0 - retry_jitter..1.0 + retry_jitter): a value of the
\* half-open range; the range is empty when retry_jitter is 0 and gen_range
\* panics on an empty range.
gen_range(lo, hi) == IF lo >= hi THEN {} ELSE {lo, (lo + hi) \div 2, hi - 1}

\* delay.mul_f64(jitter_factor), truncated to whole ms.
mul_f64(d, pct) == (d * pct) \div 100

\* Duration::from_millis((delay as f64 * backoff_factor).min(max) as u64).
backoff(c, d) == Min((d * c.backoff_factor) \div 10, c.max_retry_delay_ms)

InitRetry ==
    /\ LogWatcherIdle
    /\ BufferIdle
    /\ CollectorIdle
    /\ AgentIdle
    /\ ShutdownIdle
    /\ CheckpointIdle
    /\ rcfg \in RetryConfigs
    /\ attempts = 0
    /\ delay = rcfg.initial_retry_delay_ms
    /\ sleeps = <<>>
    /\ rstate = "trying"

\* endpoint.connect() returns Ok(channel).
ConnectAccepted ==
    /\ rstate = "trying"
    /\ attempts < MaxAttempts
    /\ attempts' = attempts + 1
    /\ rstate' = "connected"
    /\ UNCHANGED <<rcfg, delay, sleeps>>

\* endpoint.connect() returns Err(e): give up at the limit, else sleep the
\* jittered delay and grow the delay.
ConnectRefused ==
    /\ rstate = "trying"
    /\ attempts < MaxAttempts
    /\ attempts' = attempts + 1
    /\ IF rcfg.max_reconnect_attempts # Unset /\ attempts + 1 >= rcfg.max_reconnect_attempts[1]
       THEN rstate' = "error" /\ UNCHANGED <<delay, sleeps>>
       ELSE LET factors == gen_range(100 - rcfg.retry_jitter, 100 + rcfg.retry_jitter)
            IN  IF factors = {}
                THEN rstate' = "panicked" /\ UNCHANGED <<delay, sleeps>>
                ELSE /\ \E jitter_factor \in factors :
                          sleeps' = Append(sleeps, mul_f64(delay, jitter_factor))
                     /\ delay' = backoff(rcfg, delay)
                     /\ UNCHANGED rstate
    /\ UNCHANGED rcfg

NextRetry ==
    \/ ConnectAccepted /\ UNCHANGED <<bufVars, obsVars, colVars, agtVars, ckVars, shVars, lwVars>>
    \/ ConnectRefused /\ UNCHANGED <<bufVars, obsVars, colVars, agtVars, ckVars, shVars, lwVars>>

SpecRetry == InitRetry /\ [][NextRetry]_vars

(***************************************************************************)
(* SpecReconnect: the outer loop of run_worker around connect_with_retry,  *)
(* with no shutdown signal sent. When connect_with_retry has returned, an  *)
(* error is logged, a stream is used until it ends, and the loop comes     *)
(* round to a new call, whose attempts and delay start afresh; sleeps are  *)
(* those of the current call.                                              *)
(***************************************************************************)
RunWorkerLoop ==
    /\ rstate \in {"error", "connected"}
    /\ rstate' = "trying"
    /\ attempts' = 0
    /\ delay' = rcfg.initial_retry_delay_ms
    /\ sleeps' = <<>>
    /\ UNCHANGED rcfg

NextReconnect ==
    \/ ConnectAccepted /\ UNCHANGED <<bufVars, obsVars, colVars, agtVars, ckVars, shVars, lwVars>>
    \/ ConnectRefused /\ UNCHANGED <<bufVars, obsVars, colVars, agtVars, ckVars, shVars, lwVars>>
    \/ RunWorkerLoop /\ UNCHANGED <<bufVars, obsVars, colVars, agtVars, ckVars, shVars, lwVars>>

SpecReconnect == InitRetry /\ [][NextReconnect]_vars

(***************************************************************************)
(* SpecCheckpoint: the log collector's LogWatcher over several runs: the   *)
(* checkpoint it keeps and persists, and the offsets its Tailers read at.  *)
(***************************************************************************)
LineBytes == {1, 2}

RECURSIVE SumBytes(_)
SumBytes(ls) == IF ls = <<>> THEN 0 ELSE Head(ls).bytes + SumBytes(Tail(ls))

\* The byte offset at which line i of a file begins.
LineStart(ls, i) == SumBytes(SubSeq(ls, 1, i - 1))

\* The lines of a file that hold the byte at offset o (at most one).
LinesAt(ls, o) ==
    {i \in DOMAIN ls : LineStart(ls, i) <= o /\ o < LineStart(ls, i) + ls[i].bytes}

\* The last line of the file has no newline yet.
Unterminated(ls) == ls # <<>> /\ ~ls[Len(ls)].nl

CheckpointPath == "checkpoint.json"

\* Checkpoint::load_checkpoint: when the in-memory map has an entry under
\* saved_file_path the file on disk is read and its entry compared and
\* logged; no branch assigns to self.files.
load_checkpoint(files, disk, saved_file_path) ==
    IF saved_file_path \in DOMAIN files THEN files ELSE files

\* Checkpoint::save_checkpoint: insert the FileState, write the whole map.
save_checkpoint(files, file_path, file_inode, file_offset) ==
    Put(files, file_path, [inode |-> file_inode, offset |-> file_offset])

\* discover_initial_files: checkpoint.files.get(&path).map(|f| f.offset)
\* .unwrap_or(0).
checkpoint_offset(files, path) ==
    IF path \in DOMAIN files THEN files[path].offset ELSE 0

\* discover_initial_files: the files without a checkpoint entry are saved
\* with offset 0, one after the other.
RECURSIVE save_new_files(_, _)
save_new_files(files, paths) ==
    IF paths = {} THEN files
    ELSE LET path == CHOOSE q \in paths : TRUE
         IN  save_new_files(
                 IF path \in DOMAIN files THEN files
                 ELSE save_checkpoint(files, path, LogInode(path), 0),
                 paths \ {path})

InitCheckpoint ==
    /\ LogWatcherIdle
    /\ RetryIdle
    /\ BufferIdle
    /\ CollectorIdle
    /\ AgentIdle
    /\ ShutdownIdle
    /\ lfile = [p \in LogFiles |-> <<>>]
    /\ ckfile = EmptyMap
    /\ checkpoint = EmptyMap
    /\ ltail = [p \in LogFiles |-> NoTailer]
    /\ lphase = "down"
    /\ lrun = 0
    /\ before = [p \in LogFiles |-> {}]
    /\ persisted = EmptyMap

\* An application writes n bytes at the end of a log file, with or without
\* a newline as the last of them: they continue the unterminated last
\* line, or start a new line.
AppendLine(p) ==
    /\ lphase # "off"
    /\ \E n \in LineBytes, newline \in BOOLEAN :
         /\ SumBytes(lfile[p]) + n <= MaxFileBytes
         /\ lfile' = [lfile EXCEPT ![p] =
                IF Unterminated(@)
                THEN [@ EXCEPT ![Len(@)] = [bytes |-> @.bytes + n, nl |-> newline]]
                ELSE Append(@, [bytes |-> n, nl |-> newline])]
    /\ UNCHANGED <<ckfile, checkpoint, ltail, lphase, lrun, before, persisted>>

\* LogWatcher::new_watcher: an empty Checkpoint, then load_checkpoint.
NewWatcher ==
    /\ lphase = "down"
    /\ lrun < MaxRuns
    /\ lrun' = lrun + 1
    /\ checkpoint' = load_checkpoint(EmptyMap, ckfile, CheckpointPath)
    /\ lphase' = "new"
    /\ UNCHANGED <<lfile, ckfile, ltail, before, persisted>>

\* run_watcher up to the end of discover_initial_files: a Tailer per .log
\* file at the offset of its checkpoint entry, or 0; new files are saved.
DiscoverInitialFiles ==
    /\ lphase = "new"
    /\ ltail' = [p \in LogFiles |->
                    [state |-> "running",
                     file_offset |-> checkpoint_offset(checkpoint, p),
                     pos |-> checkpoint_offset(checkpoint, p),
                     read |-> {}, fragments |-> {}]]
    /\ checkpoint' = save_new_files(checkpoint, LogFiles)
    /\ ckfile' = IF LogFiles \subseteq DOMAIN checkpoint THEN ckfile ELSE checkpoint'
    /\ lphase' = "up"
    /\ UNCHANGED <<lfile, lrun, before, persisted>>

\* AsyncBufReadExt::read_line from offset pos inside line i: the bytes up
\* to and including the newline, or up to the end of the file when the
\* line has none yet. whole says that the bytes are one complete line.
read_line(ls, i, pos) ==
    [bytes |-> LineStart(ls, i) + ls[i].bytes - pos,
     whole |-> pos = LineStart(ls, i) /\ ls[i].nl]

\* Tailer::run_tailer, the read_line arm with bytes > 0: what read_line
\* returned goes to process_log_line as one log line.
TailerReadLine(p) ==
    /\ lphase = "up"
    /\ ltail[p].state = "running"
    /\ \E i \in LinesAt(lfile[p], ltail[p].pos) :
         LET r == read_line(lfile[p], i, ltail[p].pos)
         IN  ltail' = [ltail EXCEPT
                 ![p].pos = @ + r.bytes,
                 ![p].read = @ \cup {ltail[p].pos},
                 ![p].fragments = IF r.whole THEN @ ELSE @ \cup {ltail[p].pos}]
    /\ UNCHANGED <<lfile, ckfile, checkpoint, lphase, lrun, before, persisted>>

\* LogWatcher::shutdown: every Tailer gets the signal and is awaited; the
\* process ends and the checkpoint file stays.
WatcherShutdown ==
    /\ lphase = "up"
    /\ ltail' = [p \in LogFiles |-> [ltail[p] EXCEPT !.state = "stopped"]]
    /\ before' = [p \in LogFiles |-> before[p] \cup ltail[p].read]
    /\ persisted' = ckfile
    /\ lphase' = "down"
    /\ UNCHANGED <<lfile, ckfile, checkpoint, lrun>>

NextCheckpoint ==
    \/ \E p \in LogFiles : AppendLine(p) /\ UNCHANGED <<bufVars, obsVars, colVars, agtVars, retVars, shVars, lwVars>>
    \/ NewWatcher /\ UNCHANGED <<bufVars, obsVars, colVars, agtVars, retVars, shVars, lwVars>>
    \/ DiscoverInitialFiles /\ UNCHANGED <<bufVars, obsVars, colVars, agtVars, retVars, shVars, lwVars>>
    \/ \E p \in LogFiles : TailerReadLine(p) /\ UNCHANGED <<bufVars, obsVars, colVars, agtVars, retVars, shVars, lwVars>>
    \/ WatcherShutdown /\ UNCHANGED <<bufVars, obsVars, colVars, agtVars, retVars, shVars, lwVars>>

SpecCheckpoint == InitCheckpoint /\ [][NextCheckpoint]_vars

(***************************************************************************)
(* SpecRunWatcher: the loop of the log collector's LogWatcher::run_watcher *)
(* over a log_dir in which .log files are created, written and removed.    *)
(* A handler works on the LogWatcher's fields, st = [active_files,          *)
(* checkpoint, ckfile, ltail], and returns them with its Result. ioOk is   *)
(* the outcome of the writes of the checkpoint file in the handler, readOk *)
(* that of read_dir; a metadata lookup fails when the path is absent.      *)
(***************************************************************************)
WatcherState ==
    [active_files |-> active_files, checkpoint |-> checkpoint,
     ckfile |-> ckfile, ltail |-> ltail]

\* handle_new_file: nothing for an inode in active_files; else record it,
\* spawn a Tailer at offset 0 and save_checkpoint(path, inode, 0)?.
handle_new_file(st, inode, path, ioOk) ==
    IF inode \in DOMAIN st.active_files
    THEN [st |-> st, res |-> "Ok"]
    ELSE LET files == save_checkpoint(st.checkpoint, path, inode, 0)
         IN  [st |-> [active_files |-> Put(st.active_files, inode, path),
                      checkpoint |-> files,
                      ckfile |-> IF ioOk THEN files ELSE st.ckfile,
                      ltail |-> [st.ltail EXCEPT ![path] =
                                    [state |-> "running", file_offset |-> 0,
                                     pos |-> 0, read |-> {}, fragments |-> {}]]],
              res |-> IF ioOk THEN "Ok" ELSE "Err"]

\* handle_file_removal: for a path with a checkpoint entry, reset the entry
\* when the path names another inode now, and forget the path when its
\* metadata lookup fails; the error of that last write is only logged.
handle_file_removal(st, path, dir, ioOk) ==
    IF path \notin DOMAIN st.checkpoint
    THEN [st |-> st, res |-> "Ok"]
    ELSE IF dir[path] # 0
    THEN IF dir[path] # st.checkpoint[path].inode
         THEN LET files == save_checkpoint(st.checkpoint, path, dir[path], 0)
              IN  [st |-> [st EXCEPT !.checkpoint = files,
                                     !.ckfile = IF ioOk THEN files ELSE @],
                   res |-> IF ioOk THEN "Ok" ELSE "Err"]
         ELSE [st |-> st, res |-> "Ok"]
    ELSE LET files == Del(st.checkpoint, path)
             kept == {i \in DOMAIN st.active_files : st.active_files[i] # path}
         IN  [st |-> [st EXCEPT !.active_files = [i \in kept |-> st.active_files[i]],
                                !.checkpoint = files,
                                !.ckfile = IF ioOk THEN files ELSE @],
              res |-> "Ok"]

\* handle_event: every call in its arms is followed by `?`.
handle_event(st, event, dir, ioOk) ==
    CASE event.kind = "Create" ->
           IF dir[event.path] = 0
           THEN [st |-> st, res |-> "Err"]
           ELSE handle_new_file(st, dir[event.path], event.path, ioOk)
      [] event.kind = "Modify" -> [st |-> st, res |-> "Ok"]
      [] event.kind = "Remove" -> handle_file_removal(st, event.path, dir, ioOk)
      [] OTHER -> [st |-> st, res |-> "Ok"]

\* The while loop of discover_new_files over the entries read_dir yields:
\* handle_new_file(inode, &path)? for each.
RECURSIVE discover_new_log_files(_, _, _, _)
discover_new_log_files(st, entries, dir, ioOk) ==
    IF entries = <<>> THEN [st |-> st, res |-> "Ok"]
    ELSE LET r == handle_new_file(st, dir[Head(entries)], Head(entries), ioOk)
         IN  IF r.res = "Err" THEN r
             ELSE discover_new_log_files(r.st, Tail(entries), dir, ioOk)

\* read_dir yields the entries that exist, in some order.
ReadDirOrders == {<<"app.log", "sys.log">>, <<"sys.log", "app.log">>}

read_dir(order, dir) == SelectSeq(order, LAMBDA p : dir[p] # 0)

SetWatcher(r) ==
    /\ active_files' = r.st.active_files
    /\ checkpoint' = r.st.checkpoint
    /\ ckfile' = r.st.ckfile
    /\ ltail' = r.st.ltail
    /\ lphase' = IF r.res = "Err" THEN "failed" ELSE lphase

InitRunWatcher ==
    /\ RetryIdle
    /\ BufferIdle
    /\ CollectorIdle
    /\ AgentIdle
    /\ ShutdownIdle
    /\ lfile = [p \in LogFiles |-> <<>>]
    /\ ckfile = EmptyMap
    /\ checkpoint = EmptyMap
    /\ ltail = [p \in LogFiles |-> NoTailer]
    /\ lphase = "up"
    /\ lrun = 1
    /\ before = [p \in LogFiles |-> {}]
    /\ persisted = EmptyMap
    /\ ldir = [p \in LogFiles |-> 0]
    /\ levents = <<>>
    /\ active_files = EmptyMap
    /\ lops = 0

\* A .log file is created in log_dir; its inode is any free one.
LogCreate(p) ==
    /\ lphase = "up" /\ lops < MaxFsOps
    /\ ldir[p] = 0
    /\ \E i \in Inodes \ {ldir[q] : q \in LogFiles} :
         ldir' = [ldir EXCEPT ![p] = i]
    /\ levents' = Append(levents, [kind |-> "Create", path |-> p])
    /\ lops' = lops + 1
    /\ UNCHANGED <<active_files, ckVars>>

LogModify(p) ==
    /\ lphase = "up" /\ lops < MaxFsOps
    /\ ldir[p] # 0
    /\ levents' = Append(levents, [kind |-> "Modify", path |-> p])
    /\ lops' = lops + 1
    /\ UNCHANGED <<ldir, active_files, ckVars>>

LogRemove(p) ==
    /\ lphase = "up" /\ lops < MaxFsOps
    /\ ldir[p] # 0
    /\ ldir' = [ldir EXCEPT ![p] = 0]
    /\ levents' = Append(levents, [kind |-> "Remove", path |-> p])
    /\ lops' = lops + 1
    /\ UNCHANGED <<active_files, ckVars>>

\* run_watcher, the event_rx arm: self.handle_event(event).await?
RunWatcherEvent ==
    /\ lphase = "up"
    /\ levents # <<>>
    /\ \E ioOk \in BOOLEAN :
         SetWatcher(handle_event(WatcherState, Head(levents), ldir, ioOk))
    /\ levents' = Tail(levents)
    /\ UNCHANGED <<ldir, lops, lfile, lrun, before, persisted>>

\* run_watcher, the sleep arm: self.discover_new_files().await?
RunWatcherRescan ==
    /\ lphase = "up"
    /\ \E readOk \in BOOLEAN, ioOk \in BOOLEAN, order \in ReadDirOrders :
         SetWatcher(IF readOk
                    THEN discover_new_log_files(WatcherState, read_dir(order, ldir),
                                                ldir, ioOk)
                    ELSE [st |-> WatcherState, res |-> "Err"])
    /\ UNCHANGED <<ldir, levents, lops, lfile, lrun, before, persisted>>

\* run_watcher, the shutdown arm: self.shutdown(), break.
RunWatcherShutdown ==
    /\ lphase = "up"
    /\ ltail' = [p \in LogFiles |->
                    IF ltail[p].state = "running"
                    THEN [ltail[p] EXCEPT !.state = "stopped"] ELSE ltail[p]]
    /\ lphase' = "down"
    /\ UNCHANGED <<ldir, levents, active_files, lops, lfile, ckfile, checkpoint,
                   lrun, before, persisted>>

NextRunWatcher ==
    \/ \E p \in LogFiles : LogCreate(p) /\ UNCHANGED <<bufVars, obsVars, colVars, agtVars, retVars, shVars>>
    \/ \E p \in LogFiles : LogModify(p) /\ UNCHANGED <<bufVars, obsVars, colVars, agtVars, retVars, shVars>>
    \/ \E p \in LogFiles : LogRemove(p) /\ UNCHANGED <<bufVars, obsVars, colVars, agtVars, retVars, shVars>>
    \/ RunWatcherEvent /\ UNCHANGED <<bufVars, obsVars, colVars, agtVars, retVars, shVars>>
    \/ RunWatcherRescan /\ UNCHANGED <<bufVars, obsVars, colVars, agtVars, retVars, shVars>>
    \/ RunWatcherShutdown /\ UNCHANGED <<bufVars, obsVars, colVars, agtVars, retVars, shVars>>

SpecRunWatcher == InitRunWatcher /\ [][NextRunWatcher]_vars

(***************************************************************************)
(* SpecShutdown: helpers::shutdown::Shutdown, a tokio broadcast channel    *)
(* whose only message is the shutdown event.                               *)
(***************************************************************************)
ShutdownCapacity == 16

\* broadcast::Sender::send: with no receiver alive the value is returned in
\* the error and not stored; trigger ignores the result.
broadcast_send(sent, rx_cnt) == IF rx_cnt = 0 THEN sent ELSE sent + 1

\* broadcast::Receiver::recv: "Ok" with a stored message at the cursor,
\* "Lagged" when the ring has overwritten it, "Pending" without one.
broadcast_recv(sent, next) ==
    IF sent - next > ShutdownCapacity THEN "Lagged"
    ELSE IF next < sent THEN "Ok"
    ELSE "Pending"

\* The cursor of a receiver after recv returned Ok.
recv_cursor_stuck(next) == next

recv_cursor(next) == next + 1

LiveReceivers == {r \in Receivers : rxs[r].state = "live"}

InitShutdown ==
    /\ LogWatcherIdle
    /\ RetryIdle
    /\ CheckpointIdle
    /\ BufferIdle
    /\ CollectorIdle
    /\ AgentIdle
    /\ bsent = 0
    /\ triggered = FALSE
    /\ rxs = [r \in Receivers |-> NoReceiver]

\* Shutdown::subscribe: a receiver whose cursor is the end of the channel.
Subscribe(r) ==
    /\ rxs[r].state = "none"
    /\ rxs' = [rxs EXCEPT ![r] = [state |-> "live", next |-> bsent,
                                  seen |-> 0, early |-> ~triggered]]
    /\ UNCHANGED <<bsent, triggered>>

\* Shutdown::trigger, called by the CTRL+C listener task, which then ends.
ShutdownTrigger ==
    /\ ~triggered
    /\ triggered' = TRUE
    /\ bsent' = broadcast_send(bsent, Cardinality(LiveReceivers))
    /\ UNCHANGED rxs

\* A component's shutdown_rx.recv() resolves.
ShutdownRecv(r) ==
    /\ rxs[r].state = "live"
    /\ broadcast_recv(bsent, rxs[r].next) = "Ok"
    /\ rxs' = [rxs EXCEPT ![r].next = recv_cursor(@), ![r].seen = @ + 1]
    /\ UNCHANGED <<bsent, triggered>>

NextShutdown ==
    \/ \E r \in Receivers : Subscribe(r) /\ UNCHANGED <<bufVars, obsVars, colVars, agtVars, retVars, ckVars, lwVars>>
    \/ ShutdownTrigger /\ UNCHANGED <<bufVars, obsVars, colVars, agtVars, retVars, ckVars, lwVars>>
    \/ \E r \in Receivers : ShutdownRecv(r) /\ UNCHANGED <<bufVars, obsVars, colVars, agtVars, retVars, ckVars, lwVars>>

SpecShutdown == InitShutdown /\ [][NextShutdown]_vars

(***************************************************************************)
(* Claims about the InMemoryBuffer, checked under SpecBuffer.              *)
(***************************************************************************)
InQueue(r) == r \in Range(queue)

\* C2: every record that push accepted and that the overflow policy did not
\* drop is either still in the queue or has appeared in a batch returned by
\* flush, after any sequence of push, flush, flush_remaining_logs, drain and
\* shutdown.
C2_AcceptedQueuedOrReturned ==
    \A r \in Range(pushed) \ dropped : InQueue(r) \/ r \in returned

\* C8: with buffer_capacity > 0 and overflow_policy drop_newest, drop_oldest
\* or block_with_backpressure, the queue length never exceeds buffer_capacity.
C8_QueueWithinCapacity ==
    (/\ cfg.buffer_capacity > 0
     /\ cfg.overflow_policy \in {"drop_newest", "drop_oldest", "block_with_backpressure"})
        => Len(queue) <= cfg.buffer_capacity

\* C9: with overflow_policy = drop_oldest and buffer_capacity = c > 0, after n
\* pushes and no flush the queue holds exactly the last min(n, c) pushed
\* records, in push order.
C9_DropOldestKeepsNewest ==
    (/\ cfg.overflow_policy = "drop_oldest"
     /\ cfg.buffer_capacity > 0
     /\ quiet)
        => LET n == Len(pushed)
               k == Min(n, cfg.buffer_capacity)
           IN  queue = SubSeq(pushed, n - k + 1, n)

\* C10: with overflow_policy = drop_newest, a push onto a full bounded buffer
\* returns success and leaves the queue unchanged (the incoming record is
\* rejected, not appended).
C10_DropNewestLeavesQueue ==
    [][(/\ calls' = calls + 1
        /\ IsFull
        /\ cfg.overflow_policy = "drop_newest")
          => (last'.res = "Ok" /\ queue' = queue)]_vars

\* C11: with overflow_policy = block_with_backpressure a push onto a full
\* bounded buffer does not append: the record of a push that finds the queue
\* full is not put into the queue (nor flushed to the table) by that call.
C11_BackpressureHoldsPush ==
    [][(calls' = calls + 1 /\ IsFull /\ cfg.overflow_policy = "block_with_backpressure")
          => <<0, calls + 1>> \notin (Range(queue') \cup Range(db'))]_vars

\* C12: when persisting the batch fails during a flush under SQLite
\* durability, flush returns an error and the records it selected are still
\* in the in-memory queue in their original order: the queue after the
\* failed flush is the queue before it.
C12_FailedFlushKeepsQueue ==
    [][(last'.op = "flush" /\ last'.res = "Err") => queue' = queue]_vars

\* C25: under sqlite durability, when push returns Ok the pushed record has
\* been written to the normalized_logs table.
C25_PushPersists ==
    [][(calls' = calls + 1 /\ last'.op = "push" /\ last'.res = "Ok"
           /\ cfg.durability = "SQLite")
          => <<0, calls + 1>> \in Range(db')]_vars

\* The flush conditions of the configured policy, as the claim gives them.
FlushFires ==
    \/ cfg.flush_policy \in {"batch_size", "hybrid_size_timeout"}
          /\ Len(queue) >= cfg.batch_size
    \/ cfg.flush_policy \in {"batch_timeout", "hybrid_size_timeout"}
          /\ now - last_flush_at > cfg.batch_timeout_ms

\* C26: when flush fires, the returned batch is exactly the oldest
\* flush_count records of the queue in FIFO order, flush_count being
\* min(batch_size, queue_len) under batch_size and hybrid_size_timeout and
\* queue_len under batch_timeout, and the remaining records stay in the
\* queue in their order; when flush does not fire it returns the empty
\* indication and leaves the queue and last_flush_at unchanged.
C26_FlushTakesOldest ==
    [][(last'.op = "flush" /\ calls' = calls /\ now' = now /\ ~closed)
          => LET n == IF cfg.flush_policy = "batch_timeout" THEN Len(queue)
                      ELSE Min(cfg.batch_size, Len(queue))
             IN  IF FlushFires
                 THEN /\ last'.res \in {"Some", "Err"}
                      /\ last'.res = "Some" => last'.batch = SubSeq(queue, 1, n)
                      /\ queue' = SubSeq(queue, n + 1, Len(queue))
                 ELSE /\ last'.res = "None"
                      /\ queue' = queue
                      /\ last_flush_at' = last_flush_at]_vars

\* A flush under the batch_size policy returned the two oldest records and
\* left a younger one in the queue.
C26_Witness ==
    /\ last.op = "flush" /\ last.res = "Some"
    /\ Len(last.batch) = 2
    /\ queue # <<>>
    /\ cfg.flush_policy = "batch_size"

\* C27: with batch_size = 0 every push is followed by a flush that takes the
\* pushed record out of the queue and returns it in a batch, so no record
\* stays in the queue after the push-then-flush step of process_log_line.
\* Stated for the policies under which batch_size decides the flush.
C27_ZeroBatchSizeFlushesEveryPush ==
    [][(calls' = calls + 1 /\ last'.op = "process_log_line"
           /\ cfg.batch_size = 0
           /\ cfg.flush_policy \in {"batch_size", "hybrid_size_timeout"}
           /\ last'.res \notin {"ParseErr", "PushErr", "FlushErr"})
          => /\ queue' = <<>>
             /\ <<0, calls + 1>> \in Range(last'.batch)]_vars

\* C28: under the batch_timeout or hybrid_size_timeout policy a record
\* sitting in the queue is eventually flushed once batch_timeout_ms has
\* elapsed since the last flush, even if no further record is ever pushed.
C28_TimeoutFlushWithoutPush ==
    (/\ cfg.flush_policy \in {"batch_timeout", "hybrid_size_timeout"}
     /\ queue # <<>>
     /\ now - last_flush_at > cfg.batch_timeout_ms)
       ~> (queue = <<>>)

\* C29: every non-empty batch that flush returns is passed to Shipper.send,
\* under both durabilities: the records that a process_log_line step takes
\* out of the queue in returned batches are the records of the batch it
\* passes to Shipper.send.
C29_ReturnedBatchIsSent ==
    [][(calls' = calls + 1 /\ last'.op = "process_log_line")
          => (returned' \ returned) \subseteq Range(last'.batch)]_vars

(***************************************************************************)
(* Claims about the log-collector pipeline, checked under SpecCollector.   *)
(***************************************************************************)
\* C3: no accepted record is silently lost: every record that push accepted
\* is in the in-memory queue, or persisted in the SQLite table, or has been
\* handed to the Shipper (a batch whose send is still suspended counts as
\* being handed over).
C3_AcceptedNeverLost ==
    \A r \in Range(pushed) :
        InQueue(r) \/ r \in Range(db) \/ r \in handed \/ r \in Range(sendbuf)

C14_SendNeverBlocks == \A f \in Files : tstate[f] # "sending"

\* A step of the graceful shutdown that empties the buffer: a Tailer's
\* shutdown arm, or run_log_collector's buf.shutdown().
ShutdownFlushStep ==
    \/ \E f \in Files : tstate[f] = "running" /\ tstate'[f] = "done"
    \/ phase \in {"stopping", "detached"} /\ phase' = "buffer_down"

\* C13: on graceful shutdown with records in the buffer queue and the
\* Shipper connected, every queued record is emitted in a terminal batch
\* towards the request stream, whatever the flush_policy: the records that
\* a shutdown step takes out of the queue are handed to the Shipper.
C13_ShutdownEmitsQueued ==
    [][(ShutdownFlushStep /\ wstate = "streaming")
          => (Range(queue) \ Range(queue')) \subseteq handed']_vars

\* The position of record r in the order of entry into the handoff channel.
EnqueuedAt(r) == CHOOSE n \in DOMAIN enqueued : enqueued[n] = r

\* C15: within the lifetime of one connection, the records of the batches
\* accepted by Shipper.send are written to the request stream in enqueue
\* order (batch order, then the order inside each batch), and no record is
\* written twice.
C15_EnqueueOrderPerConnection ==
    \A i \in DOMAIN wire : \A j \in DOMAIN wire :
        (i < j /\ wire[i].conn = wire[j].conn)
            => /\ wire[i].log \in Range(enqueued)
               /\ wire[j].log \in Range(enqueued)
               /\ EnqueuedAt(wire[i].log) < EnqueuedAt(wire[j].log)

\* One connection has carried more records than one batch can hold, so at
\* least two batches were written on it.
C15_Witness ==
    \E c \in 1..MaxConn :
        Cardinality({i \in DOMAIN wire : wire[i].conn = c}) > MaxBatchSize

\* The records some stream has carried.
OnWire == {wire[i].log : i \in DOMAIN wire}

\* C16: when the stream fails after a batch has been handed to the Shipper,
\* the records of that batch that were not yet delivered are transmitted
\* again on the next successfully opened stream: a record written on a
\* later connection is never preceded, in enqueue order, by a record that
\* no stream has carried.
C16_UndeliveredRetransmitted ==
    \A i \in DOMAIN wire : \A n \in DOMAIN enqueued :
        (wire[i].conn > 1 /\ n < EnqueuedAt(wire[i].log))
            => enqueued[n] \in OnWire

\* C30: on an error writing a record to the request stream the Shipper
\* worker tears the stream down and goes back to connect_with_retry: while
\* the stream is broken, and outside its shutdown drain, it takes no batch
\* from the handoff channel.
C30_BrokenStreamStopsTaking ==
    [][(wstate = "broken" /\ wstate' = "broken" /\ wsignal' = wsignal)
          => Len(chan') >= Len(chan)]_vars

\* C31: when shutdown fires while the Shipper worker is connected, the
\* worker writes the batches still in the handoff channel to the request
\* stream, then closes the request stream and exits its loop: once it has
\* taken the signal and drained the channel it neither takes another batch
\* nor goes back to connecting, its next move is to exit.
C31_DrainThenExit ==
    [][(wsignal = "taken" /\ wstate \in {"streaming", "broken"})
          => /\ wstate' \in {wstate, "exited"}
             /\ wstate' = wstate => Len(chan') >= Len(chan)]_vars

\* C35: on shutdown each Tailer reads its file up to the current end of
\* file and pushes every complete line into the buffer before it exits: a
\* Tailer that has exited has read all the complete lines of its file.
C35_TailerDrainsToEof ==
    \A f \in Files : tstate[f] = "done" => tpos[f] = LinesPerFile

\* C37: after the global shutdown is triggered, run_log_collector
\* eventually returns, even when the embedder is unreachable and the
\* Shipper's handoff channel is full while a Tailer holds the buffer and
\* shipper locks.
C37_ShutdownReturns ==
    (phase = "stopping") ~> (phase = "done")

\* C22: during shutdown the stages stop in order, for every interleaving of
\* the shutdown receivers: every Tailer task has exited before the Buffer's
\* shutdown flush starts, and the Buffer's shutdown has finished before the
\* Shipper's shutdown starts.
C22_StagesStopInOrder ==
    /\ phase \in {"buffer_down", "shipper_down", "done"}
          => \A f \in Files : tstate[f] = "done"
    /\ wsignal # "idle" => closed

(***************************************************************************)
(* Claims about the core-agent Watcher, checked under SpecWatcher.         *)
(***************************************************************************)
\* C1: for every file identity (inode) the offset stored in the Checkpoint
\* never decreases: whatever the Watcher does (bootstrap scan, rescan, file
\* create / rotate / remove event), the offset recorded for an identity
\* after the step is at least the offset recorded for it before the step.
C1_OffsetNeverDecreases ==
    [][\A i \in DOMAIN ckpt \cap DOMAIN ckpt' : ckpt'[i].offset >= ckpt[i].offset]_vars

\* C34: at Watcher start a FileDiscovered event is produced for every
\* accepted file present in the directory, including the files that already
\* have an entry under the same identity in the loaded Checkpoint.
C34_InitialScanEmitsAll ==
    [][(wphase = "boot" /\ wphase' = "running")
          => \A p \in Paths :
                (valid_file_format(p) /\ fs[p] # 0)
                   => \E k \in Len(wq) + 1 .. Len(wq') :
                         wq'[k] = FileDiscovered(fs[p], p)]_vars

\* C32: after a tailed file is removed and the removal has been handled, the
\* Tailer of that identity has been cancelled and the identity -> handle
\* mapping no longer contains it: when the Watcher handles the Remove event
\* of a path whose file is gone and whose identity it tracks, it sends
\* FileRemoved for that identity, on which the Manager cancels the Tailer,
\* and drops the identity from its mapping.
C32_RemovalStopsTailer ==
    [][(/\ fsq # <<>> /\ fsq' = Tail(fsq)
        /\ Head(fsq).kind = "Remove"
        /\ fs[Head(fsq).paths[1]] = 0)
          => \A i \in DOMAIN ckpt :
                (ckpt[i].path = Head(fsq).paths[1] /\ i \notin Linked(fs))
                   => /\ i \notin DOMAIN ckpt'
                      /\ \E k \in Len(wq) + 1 .. Len(wq') :
                            wq'[k] = FileRemoved(i, Head(fsq).paths[1])]_vars

(***************************************************************************)
(* Claims about the core-agent TailerManager, checked under SpecManager.   *)
(***************************************************************************)
RunningFor(i) == {t \in DOMAIN tasks : tasks[t].inode = i /\ Running(t)}

\* The manager applies the Start of a FileDiscovered payload in this step.
DiscoveredStartStep ==
    /\ mcur.kind = "FileDiscovered"
    /\ pending # <<>>
    /\ Head(pending).kind = "Start"
    /\ pending' = Tail(pending)

C5_RotationIsStopThenStart ==
    [][(mcur.kind = "FileRotated" /\ pending # <<>> /\ pending' = Tail(pending)) =>
          /\ Head(pending).kind = "Start" =>
                /\ mcur.old_inode \notin DOMAIN tailers
                /\ Len(tasks') > Len(tasks) =>
                      /\ tasks'[Len(tasks')].offset = 0
                      /\ tasks'[Len(tasks')].pos = 0
                      /\ tasks'[Len(tasks')].inode = mcur.inode
                      /\ tasks'[Len(tasks')].path = mcur.path
          /\ Tail(pending) = <<>> =>
                tailers' = handle_events(
                    mbase.tailers,
                    tailer_translate_event(FileRemoved(mcur.old_inode, mcur.old_path))
                        \o tailer_translate_event(FileDiscovered(mcur.inode, mcur.path)),
                    mbase.ntasks)]_vars

\* A rotation stopped the running Tailer of the old identity and spawned the
\* Tailer of the new one, and the manager is done with the event.
C5_Witness ==
    /\ mcur = NoPayload
    /\ \E t \in DOMAIN tasks :
         /\ tasks[t].after # 0
         /\ tasks[tasks[t].after].cancelled
         /\ tasks[t].inode \in DOMAIN tailers
         /\ tasks[tasks[t].after].inode \notin DOMAIN tailers

EmittedUpTo(t) ==
    IF \E k \in DOMAIN emitted : emitted[k].task = t
    THEN CHOOSE n \in 0..MaxSize :
           /\ \E k \in DOMAIN emitted : emitted[k].task = t /\ emitted[k].upto = n
           /\ \A k \in DOMAIN emitted : emitted[k].task = t => emitted[k].upto <= n
    ELSE 0

\* C6: for every rotation the old Tailer drains before it exits: once the
\* Tailer that a FileRotated stopped has exited, everything that was written
\* to its file before the rotation has been emitted downstream, and nothing
\* of the old identity is emitted after the first emission of the Tailer
\* the rotation started.
C6_OldTailerDrains ==
    /\ \A t \in DOMAIN tasks :
         (tasks[t].drainTo >= 0 /\ ~Running(t)) => EmittedUpTo(t) >= tasks[t].drainTo
    /\ \A j \in DOMAIN emitted : \A k \in DOMAIN emitted :
         (j < k /\ tasks[emitted[j].task].after # 0)
            => emitted[k].task # tasks[emitted[j].task].after

\* C33: if a Tailer exits because of an error while its file still exists,
\* a later FileDiscovered for that file starts a new Tailer for it: when the
\* Manager applies the Start of a FileDiscovered whose identity maps to a
\* Tailer that has exited without having been cancelled, and the path still
\* names that identity, a new Tailer task is spawned for the identity.
C33_ExitedTailerRestarted ==
    [][(/\ DiscoveredStartStep
        /\ mcur.inode \in DOMAIN tailers
        /\ ~Running(tailers[mcur.inode])
        /\ ~tasks[tailers[mcur.inode]].cancelled
        /\ fs[mcur.path] = mcur.inode)
          => /\ Len(tasks') = Len(tasks) + 1
             /\ tasks'[Len(tasks')].inode = mcur.inode
             /\ tailers'[mcur.inode] = Len(tasks')]_vars

\* C24: a Tailer still terminates after its stop/cancellation signal fires,
\* also when its file receives no new bytes: once the stop future has
\* resolved the interruptible read returns no bytes, so the Tailer's read
\* position stays, and the Tailer task exits.
C24_StoppedTailerExits ==
    /\ [][\A t \in DOMAIN tasks :
             stop(tasks[t]) => tasks'[t].pos = tasks[t].pos]_vars
    /\ \A t \in 1..MaxTasks :
         (t \in DOMAIN tasks /\ stop(tasks[t]))
             ~> (t \in DOMAIN tasks /\ tasks[t].st = "exited")

\* A Tailer that had read its file to the end was stopped and has exited.
C24_Witness ==
    \E t \in DOMAIN tasks :
        /\ stop(tasks[t])
        /\ tasks[t].st = "exited"
        /\ tasks[t].fd # 0
        /\ tasks[t].pos = size[tasks[t].fd]
        /\ tasks[t].pos > 0

(***************************************************************************)
(* Claims about connect_with_retry, checked under SpecRetry.               *)
(***************************************************************************)
RECURSIVE Pow(_, _)
Pow(b, e) == IF e = 0 THEN 1 ELSE b * Pow(b, e - 1)

\* C17: with retry_jitter = 0 the function sleeps after every refused
\* connect, and its k-th sleep lasts
\* min(initial_retry_delay_ms * backoff_factor^(k-1), max_retry_delay_ms) ms
\* (compared here after scaling both sides by 10^(k-1), the factor being in
\* tenths): with 10 ms and factor 2 the sleeps are 10, 20, 40, 80.
C17_BackoffSleeps ==
    rcfg.retry_jitter = 0 =>
        /\ rstate # "panicked"
        /\ rstate = "trying" => Len(sleeps) = attempts
        /\ \A k \in DOMAIN sleeps :
             sleeps[k] * Pow(10, k - 1) =
                Min(rcfg.initial_retry_delay_ms * Pow(rcfg.backoff_factor, k - 1),
                    rcfg.max_retry_delay_ms * Pow(10, k - 1))

\* C18: with max_reconnect_attempts = N set and every attempt failing, the
\* function makes at most N attempts and ends by returning an error; with
\* the limit unset it never returns an error for a failed connect, it keeps
\* retrying.
C18_AttemptsLimit ==
    /\ (rcfg.max_reconnect_attempts # Unset /\ rstate # "connected" /\ rstate # "idle") =>
          /\ attempts <= rcfg.max_reconnect_attempts[1]
          /\ rstate \in {"trying", "error"}
          /\ attempts = rcfg.max_reconnect_attempts[1] =>
                (rstate = "error" \/ attempts = 0)
    /\ (rcfg.max_reconnect_attempts = Unset /\ rstate # "connected" /\ rstate # "idle") =>
          rstate = "trying"

\* C39: when max_reconnect_attempts = N is set and the embedder never
\* accepts a connection, the Shipper worker makes at most N connection
\* attempts in its whole lifetime: after connect_with_retry has returned
\* its error the worker makes no further connection attempt.
C39_NoAttemptAfterError ==
    [][(rcfg.max_reconnect_attempts # Unset /\ rstate = "error")
          => (rstate' = "error" /\ attempts' = attempts)]_vars

\* C40: every delay that connect_with_retry sleeps on, taken before jitter
\* is applied, is at most max_retry_delay_ms, for every configuration of
\* initial_retry_delay_ms, backoff_factor and max_retry_delay_ms and every
\* number of failed attempts.
C40_DelayWithinMax ==
    [][Len(sleeps') = Len(sleeps) + 1 => delay <= rcfg.max_retry_delay_ms]_vars

(***************************************************************************)
(* Claims about the log collector's checkpoint, checked under              *)
(* SpecCheckpoint.                                                         *)
(***************************************************************************)
\* C19: after a restart each Tailer resumes reading at the offset that the
\* checkpoint file held for its file before the stop, so that no line an
\* earlier run consumed and left to the checkpoint is read from disk again.
C19_ResumeAtCheckpoint ==
    \A p \in LogFiles :
        (lrun > 1 /\ ltail[p].state = "running")
            => /\ p \in DOMAIN persisted
               /\ persisted[p].inode = LogInode(p)
               /\ ltail[p].file_offset = persisted[p].offset
               /\ ltail[p].read \cap before[p] = {}

\* C20: each time a Tailer has pushed lines of n bytes in total into the
\* buffer, the checkpoint offset of its file advances by n and is
\* persisted: whenever the Tailer is idle between two lines the checkpoint
\* offset is its start offset plus the bytes it has consumed.
C20_CheckpointFollowsTailer ==
    \A p \in LogFiles :
        ltail[p].state = "running"
            => /\ p \in DOMAIN checkpoint
               /\ checkpoint[p].offset =
                      ltail[p].file_offset + (ltail[p].pos - ltail[p].file_offset)
               /\ ckfile = checkpoint

\* C36: a failure while handling a single filesystem notification (such as
\* a metadata lookup on a path that has already disappeared) or during one
\* rescan does not terminate the Watcher loop: the loop of run_watcher ends
\* only with the shutdown.
C36_WatcherSurvivesFailures ==
    [][lphase = "up" => lphase' \in {"up", "down"}]_vars

\* C23: a trailing partial line (the bytes after the last newline of the
\* file) is never handed to the parser while incomplete: everything a
\* running Tailer has passed to process_log_line was one whole line, from
\* its first byte to its newline.
C23_PartialLineRetained ==
    \A p \in LogFiles : ltail[p].fragments = {}

(***************************************************************************)
(* Claims about the Shutdown channel, checked under SpecShutdown.          *)
(***************************************************************************)
\* C21: every receiver obtained from Shutdown.subscribe() before trigger()
\* is called observes the shutdown event, and observes it exactly once:
\* after the trigger such a receiver has either received the event once,
\* or has not yet and its next recv returns it; no receiver gets it twice.
C21_EveryEarlyReceiverOnce ==
    \A r \in Receivers :
        /\ rxs[r].seen <= 1
        /\ (triggered /\ rxs[r].state = "live" /\ rxs[r].early)
              => \/ rxs[r].seen = 1 /\ broadcast_recv(bsent, rxs[r].next) = "Pending"
                 \/ rxs[r].seen = 0 /\ broadcast_recv(bsent, rxs[r].next) = "Ok"

\* Two receivers subscribed before the trigger; both have got the event.
C21_Witness ==
    \E r1 \in Receivers : \E r2 \in Receivers :
        /\ r1 # r2
        /\ triggered
        /\ rxs[r1].early /\ rxs[r1].seen = 1
        /\ rxs[r2].early /\ rxs[r2].seen = 1

\* C38: the shutdown signal is never lost: a trigger() that happens before
\* a component has subscribed (as wait_for_shutdown does when it is called)
\* is still observed by that component: once the trigger has happened,
\* every receiver has got the event or gets it from its next recv.
C38_TriggerNeverLost ==
    \A r \in Receivers :
        (triggered /\ rxs[r].state = "live")
           => \/ rxs[r].seen >= 1
              \/ broadcast_recv(bsent, rxs[r].next) = "Ok"

====
